---- MODULE Spec2Model ----
(***************************************************************************)
(* A model of docx2css: the CSS serialization engine                       *)
(* (docx2css/css/serializers.py), the style data model (docx2css/api.py)   *)
(* and the numbering restart computation (docx2css/ooxml/parsers.py,       *)
(* docx2css/ooxml/numbering.py).                                           *)
(*                                                                         *)
(* Strings are Python strings; None is the Python None of an optional      *)
(* field.  A declaration block (cssutils CSSStyleDeclaration) is the       *)
(* ordered sequence of its (name, value) properties.  The rules of a block *)
(* serializer (CssBlockSerializer.__style_rules) are an insertion-ordered  *)
(* sequence of (selector, style) pairs.                                    *)
(***************************************************************************)
EXTENDS Integers, Sequences, FiniteSets, TLC

VARIABLES
    rules,      \* CssBlockSerializer.__style_rules of the serializer at work
    applied,    \* the property-serializer writes made so far, in order
    style,      \* the style (api.BaseStyle) the block serializer is built on
    numbering,  \* the numbering definition being parsed (parse_abstract_numbering)
    stylesheet, \* the style forest of one kind, in document order
    pc,         \* position of the conversion
    serializer, \* the attributes of the CssStylesheetSerializer at work
    result      \* what serialize() returned or raised, once it has

vars == <<rules, applied, style, numbering, stylesheet, pc, serializer, result>>

(***************************************************************************)
(* Bounds of the model.                                                    *)
(***************************************************************************)
MaxWrites == 4

MaxBorderWrites == 2

(***************************************************************************)
(* Python values.                                                          *)
(***************************************************************************)
None == "<None>"

\* Python truthiness of an optional string
Truthy(s) == s # None /\ s # ""

RECURSIVE Join(_, _)
\* sep.join(seq)
Join(seq, sep) ==
    IF Len(seq) = 0 THEN ""
    ELSE IF Len(seq) = 1 THEN seq[1]
    ELSE seq[1] \o sep \o Join(Tail(seq), sep)

(***************************************************************************)
(* cssutils.css.CSSStyleDeclaration, as the serializers use it:            *)
(* style_rule[name] reads a value ('' when the property is absent) and     *)
(* style_rule[name] = value sets it; setting '' or None removes the        *)
(* property, setting an existing property changes its value in place, and  *)
(* a new property is appended.                                             *)
(***************************************************************************)
EmptyDeclaration == << >>

HasProperty(decl, name) == \E i \in 1..Len(decl) : decl[i].name = name

getPropertyValue(decl, name) ==
    IF HasProperty(decl, name)
    THEN decl[CHOOSE i \in 1..Len(decl) : decl[i].name = name].value
    ELSE ""

removeProperty(decl, name) ==
    SelectSeq(decl, LAMBDA p : p.name # name)

setProperty(decl, name, value) ==
    IF ~Truthy(value) THEN removeProperty(decl, name)
    ELSE IF HasProperty(decl, name)
    THEN [i \in 1..Len(decl) |->
            IF decl[i].name = name THEN [name |-> name, value |-> value]
            ELSE decl[i]]
    ELSE Append(decl, [name |-> name, value |-> value])

PropertyNames(decl) == {decl[i].name : i \in 1..Len(decl)}

(***************************************************************************)
(* CssBlockSerializer.__style_rules and get_or_create_rule.                *)
(***************************************************************************)
HasRule(rs, selector) == \E i \in 1..Len(rs) : rs[i].selector = selector

get_or_create_rule(rs, selector) ==
    IF HasRule(rs, selector) THEN rs
    ELSE Append(rs, [selector |-> selector, style |-> EmptyDeclaration])

\* the declaration block a selector is keyed to (empty when there is none)
RuleOf(rs, selector) ==
    IF HasRule(rs, selector)
    THEN rs[CHOOSE i \in 1..Len(rs) : rs[i].selector = selector].style
    ELSE EmptyDeclaration

\* the rules with the block of `selector` replaced by decl
PutRule(rs, selector, decl) ==
    LET rs1 == get_or_create_rule(rs, selector)
    IN  [i \in 1..Len(rs1) |->
            IF rs1[i].selector = selector
            THEN [selector |-> selector, style |-> decl]
            ELSE rs1[i]]

\* rule[name] = value on the block keyed by selector
SetCss(rs, selector, name, value) ==
    PutRule(rs, selector, setProperty(RuleOf(rs, selector), name, value))

Selectors(rs) == {rs[i].selector : i \in 1..Len(rs)}

(***************************************************************************)
(* The style data model (api.BaseStyle and its four kinds).  A style is a  *)
(* record [type, id, name, parent_id, children]; name is the sequence of   *)
(* its characters, children the ids of its child styles in the order they  *)
(* were appended.  A stylesheet is the sequence of the styles of one       *)
(* conversion in document order; styles are looked up by kind and id.      *)
(***************************************************************************)
Chars_heading == <<"h", "e", "a", "d", "i", "n", "g">>

Whitespace == {" ", "\t", "\n"}

Digits1to6 == {"1", "2", "3", "4", "5", "6"}

HasStyle(ss, type, id) ==
    \E i \in 1..Len(ss) : ss[i].type = type /\ ss[i].id = id

StyleOf(ss, type, id) ==
    ss[CHOOSE i \in 1..Len(ss) : ss[i].type = type /\ ss[i].id = id]

\* BaseStyle.qualified_id: '.'.join(filter(lambda x: x, (self.type, self.id)))
qualified_id(s) ==
    Join(SelectSeq(<<s.type, s.id>>, Truthy), ".")

\* ''.join(self.style.name.split())
StripWhitespace(name) == SelectSeq(name, LAMBDA c : c \notin Whitespace)

\* re.match('heading([1-6])', class_name): a match at the start of the name
MatchHeading(class_name) ==
    /\ Len(class_name) >= Len(Chars_heading) + 1
    /\ SubSeq(class_name, 1, Len(Chars_heading)) = Chars_heading
    /\ class_name[Len(Chars_heading) + 1] \in Digits1to6

\* CssParagraphSerializer.css_selector_prefix
CssParagraphSerializer_css_selector_prefix(s) ==
    LET class_name == StripWhitespace(s.name)
    IN  IF MatchHeading(class_name)
        THEN "h" \o class_name[Len(Chars_heading) + 1]
        ELSE "p"

\* css_selector_prefix of the block serializer registered for the style's kind
css_selector_prefix(s) ==
    CASE s.type = "span"  -> "span"
      [] s.type = "table" -> "table"
      [] s.type = "body"  -> "body"
      [] s.type = "p"     -> CssParagraphSerializer_css_selector_prefix(s)
      [] OTHER            -> ""

\* re.match('h[1-6]', prefix)
MatchH(prefix) == prefix \in {"h" \o d : d \in Digits1to6}

\* CssBlockSerializer.css_current_selector
CssBlockSerializer_css_current_selector(s) ==
    css_selector_prefix(s) \o "." \o s.id

\* CssParagraphSerializer.css_current_selector
CssParagraphSerializer_css_current_selector(s) ==
    LET class_name == s.id
        prefix == css_selector_prefix(s)
    IN  IF class_name = "" \/ MatchH(prefix)
        THEN prefix
        ELSE css_selector_prefix(s) \o "." \o class_name

\* CssTableSerializer.css_current_selector
CssTableSerializer_css_current_selector(s) == qualified_id(s)

\* css_current_selector of the block serializer registered for the style's kind
css_current_selector(s) ==
    CASE s.type = "p"     -> CssParagraphSerializer_css_current_selector(s)
      [] s.type = "table" -> CssTableSerializer_css_current_selector(s)
      [] s.type = "body"  -> css_selector_prefix(s)
      [] OTHER            -> CssBlockSerializer_css_current_selector(s)

\* the child styles of s, in the order of s.children
ChildStyles(ss, s) ==
    [i \in 1..Len(s.children) |-> StyleOf(ss, s.type, s.children[i])]

\* CssBlockSerializer.get_style_children / CssTableSerializer.get_style_children
get_style_children(ss, s) ==
    IF s.type = "table" /\ css_current_selector(s) = "table"
    THEN << >>
    ELSE ChildStyles(ss, s)

\* a plausible slip: every child of the root is kept, `p`-prefixed or not
not_p_every_child(s) ==
    s.parent_id = ""

\* not_p of CssParagraphSerializer.css_selector
not_p(s) ==
    s.parent_id = "" /\ ~(css_selector_prefix(s) = "p")

RECURSIVE Flatten(_)
\* the concatenation of a sequence of sequences
Flatten(seqs) ==
    IF Len(seqs) = 0 THEN << >> ELSE Head(seqs) \o Flatten(Tail(seqs))

\* the own member of the union: ' '.join((self.css_current_selector(), suffix))
CssBlockSerializer_own_name(s, suffix) ==
    Join(<<css_current_selector(s), suffix>>, " ")

RECURSIVE css_selector_names(_, _, _)
\* The list `names` of css_selector, with each child's comma-joined selector
\* kept as its members: CssBlockSerializer.css_selector for span and table
\* styles, CssParagraphSerializer.css_selector for paragraph styles (which
\* ignores the suffix), CssBodySerializer.css_selector for the body.
css_selector_names(ss, s, suffix) ==
    CASE s.type = "body" -> <<css_selector_prefix(s)>>
      [] s.type = "p" ->
            LET current_selector == css_current_selector(s)
                children == IF current_selector = "p"
                            THEN SelectSeq(ChildStyles(ss, s), not_p)
                            ELSE ChildStyles(ss, s)
            IN  <<current_selector>> \o
                Flatten([i \in 1..Len(children) |->
                            css_selector_names(ss, children[i], "")])
      [] OTHER ->
            LET children == get_style_children(ss, s)
            IN  <<CssBlockSerializer_own_name(s, suffix)>> \o
                Flatten([i \in 1..Len(children) |->
                            css_selector_names(ss, children[i], suffix)])

\* css_selector(suffix): ', '.join(names)
css_selector(ss, s, suffix) == Join(css_selector_names(ss, s, suffix), ", ")

(***************************************************************************)
(* Text formatting serializers.  A property value is a record              *)
(* [prop, on, line, style, color]: `on` is the value of a boolean          *)
(* property, (line, style, color) the api.TextDecoration of `underline`.   *)
(***************************************************************************)
UNDERLINE == 1

\* TextDecoration.has_line: self.line & line_type == line_type, for UNDERLINE
has_line_UNDERLINE(line) == (line % 2) = UNDERLINE

\* the truth value of self.property_value: a bool for a toggle, an object
\* (always true) for the TextDecoration of underline
PropertyValueTruthy(v) == IF v.prop = "underline" THEN TRUE ELSE v.on

\* ToggleMixin.set_css_style
ToggleMixin_set_css_style(decl, css_name, css_true, css_false, v) ==
    setProperty(decl, css_name, IF v.on = TRUE THEN css_true ELSE css_false)

\* a plausible slip: the strike serializer joins its line to any line
StrikeSerializer_can_coexists_with_any(existing_value) ==
    existing_value \in {"underline", "line-through"}

\* StrikeSerializer.can_coexists_with
StrikeSerializer_can_coexists_with(existing_value) ==
    existing_value = "underline"

\* DoubleStrikeSerializer.can_coexists_with
DoubleStrikeSerializer_can_coexists_with(existing_value) ==
    existing_value = "underline"

\* a plausible slip: the underline serializer tests for its own value
UnderlineSerializer_can_coexists_with_own(existing_value) ==
    existing_value = "underline"

\* UnderlineSerializer.can_coexists_with
UnderlineSerializer_can_coexists_with(existing_value) ==
    existing_value = "line-through"

\* self.can_coexists_with(existing): the mixin's own method returns None
can_coexists_with(prop, existing_value) ==
    CASE prop = "strike"        -> StrikeSerializer_can_coexists_with(existing_value)
      [] prop = "double_strike" -> DoubleStrikeSerializer_can_coexists_with(existing_value)
      [] prop = "underline"     -> UnderlineSerializer_can_coexists_with(existing_value)
      [] OTHER                  -> FALSE

\* a plausible slip: the off value overwrites whatever is there
ComplexToggle_write_overwrite(decl, v, name, value, none_value) ==
    setProperty(decl, name, IF PropertyValueTruthy(v) THEN value ELSE none_value)

\* one turn of the loop of ComplexToggleMixin.set_css_style
ComplexToggle_write(decl, v, name, value, none_value) ==
    LET existing == getPropertyValue(decl, name)
        new_value == IF PropertyValueTruthy(v) THEN value ELSE none_value
    IN  IF ~Truthy(existing) \/ existing = none_value
        THEN setProperty(decl, name, new_value)
        ELSE IF new_value # none_value /\ can_coexists_with(v.prop, existing)
        THEN setProperty(decl, name, Join(<<existing, new_value>>, " "))
        ELSE decl

RECURSIVE ComplexToggle_loop(_, _, _, _, _, _)
\* for name, value, none_value in zip(css_name, css_true, css_false), from i on
ComplexToggle_loop(decl, v, css_name, css_true, css_false, i) ==
    IF i > Len(css_name) \/ i > Len(css_true) \/ i > Len(css_false)
    THEN decl
    ELSE ComplexToggle_loop(
            ComplexToggle_write(decl, v, css_name[i], css_true[i], css_false[i]),
            v, css_name, css_true, css_false, i + 1)

\* ComplexToggleMixin.set_css_style
ComplexToggleMixin_set_css_style(decl, v, css_name, css_true, css_false) ==
    ComplexToggle_loop(decl, v, css_name, css_true, css_false, 1)

\* UnderlineSerializer.css_true
UnderlineSerializer_css_true(v) ==
    LET has_underline == has_line_UNDERLINE(v.line)
    IN  << IF has_underline THEN "underline" ELSE "none",
           IF has_underline THEN v.style ELSE "",
           IF has_underline THEN v.color ELSE "" >>

\* BoldSerializer
BoldSerializer_set_css_style(decl, v) ==
    ToggleMixin_set_css_style(decl, "font-weight", "bold", "normal", v)

\* StrikeSerializer
StrikeSerializer_set_css_style(decl, v) ==
    ComplexToggleMixin_set_css_style(decl, v,
        <<"text-decoration-line", "text-decoration-style">>,
        <<"line-through", "solid">>,
        <<"none", "">>)

\* DoubleStrikeSerializer
DoubleStrikeSerializer_set_css_style(decl, v) ==
    ComplexToggleMixin_set_css_style(decl, v,
        <<"text-decoration-line", "text-decoration-style">>,
        <<"line-through", "double">>,
        <<"none", "">>)

\* UnderlineSerializer
UnderlineSerializer_set_css_style(decl, v) ==
    ComplexToggleMixin_set_css_style(decl, v,
        <<"text-decoration-line", "text-decoration-style", "text-decoration-color">>,
        UnderlineSerializer_css_true(v),
        <<"none", "", "">>)

\* the text serializers of FACTORY that write to the block handed to them
TextSerializer_set_css_style(decl, v) ==
    CASE v.prop = "bold"          -> BoldSerializer_set_css_style(decl, v)
      [] v.prop = "strike"        -> StrikeSerializer_set_css_style(decl, v)
      [] v.prop = "double_strike" -> DoubleStrikeSerializer_set_css_style(decl, v)
      [] v.prop = "underline"     -> UnderlineSerializer_set_css_style(decl, v)
      [] OTHER                    -> decl

\* the values of the boolean property prop
ToggleValues(prop) ==
    {[prop |-> prop, on |-> b, line |-> 0, style |-> None, color |-> None] :
        b \in BOOLEAN}

\* TextDecoration values of the underline property
UnderlineValues ==
    {[prop |-> "underline", on |-> TRUE, line |-> l, style |-> st, color |-> c] :
        l \in {0, 1}, st \in {None, "wavy"}, c \in {None, "#ff0000"}}
    \ {u \in [prop : {"underline"}, on : {TRUE}, line : {0, 1},
               style : {None, "wavy"}, color : {None, "#ff0000"}] :
            (u.style = None) # (u.color = None)}

(***************************************************************************)
(* Lengths (utils.CssUnit): an int of EMU; an optional length is << >> for *)
(* None and <<emu>> for a value.  The f-strings that format a length are   *)
(* computed digit by digit.                                                *)
(***************************************************************************)
NoLength == << >>

Emu(v) == <<v>>

\* two decimal digits
TwoDigits(n) == IF n < 10 THEN "0" \o ToString(n) ELSE ToString(n)

Abs(n) == IF n < 0 THEN -n ELSE n

\* f'{emu / per:.2f}': the quotient rounded to hundredths
Format2f(emu, per) ==
    LET h == (Abs(emu) * 200 + per) \div (2 * per)
    IN  (IF emu < 0 THEN "-" ELSE "") \o ToString(h \div 100) \o "." \o
        TwoDigits(h % 100)

\* f'{emu / per}': the repr of the float quotient, for lengths that are whole
\* tenths of the unit
FormatRepr(emu, per) ==
    LET t == (Abs(emu) * 10) \div per
    IN  (IF emu < 0 THEN "-" ELSE "") \o ToString(t \div 10) \o "." \o
        ToString(t % 10)

\* f'{length.inches:.2f}in'
FormatInches(emu) == Format2f(emu, 914400) \o "in"

(***************************************************************************)
(* Borders (api.Border): [color, padding, shadow, style, width].           *)
(***************************************************************************)
\* BorderSerializer.css_border_width
css_border_width(border) ==
    IF border.width # NoLength
    THEN Format2f(border.width[1], 12700) \o "pt"
    ELSE ""

\* BorderSerializer.css_border_shadow
css_border_shadow(border) ==
    LET width == css_border_width(border)
    IN  IF Truthy(width) /\ border.shadow
        THEN width \o " " \o width
        ELSE ""

\* BorderSerializer.css_padding
css_padding(border) ==
    IF border.padding # NoLength /\ border.padding # Emu(0)
    THEN FormatRepr(border.padding[1], 12700) \o "pt"
    ELSE ""

\* f'-{self.direction}' if self.direction else self.direction
DirectionSuffix(direction) ==
    IF direction # "" THEN "-" \o direction ELSE direction

\* a plausible slip: the test of the style is left out
set_border_rule_unguarded(decl, direction, border) ==
    LET d == DirectionSuffix(direction)
        d1 == setProperty(decl, "border" \o d \o "-style", border.style)
        d2 == setProperty(d1, "border" \o d \o "-width", css_border_width(border))
        d3 == setProperty(d2, "border" \o d \o "-color", border.color)
        d4 == setProperty(d3, "padding" \o d, css_padding(border))
    IN  setProperty(d4, "box-shadow", css_border_shadow(border))

\* BorderSerializer.set_border_rule
set_border_rule(decl, direction, border) ==
    LET d == DirectionSuffix(direction)
        d1 == setProperty(decl, "border" \o d \o "-style", border.style)
    IN  IF border.style # "none"
        THEN LET d2 == setProperty(d1, "border" \o d \o "-width",
                                   css_border_width(border))
                 d3 == setProperty(d2, "border" \o d \o "-color", border.color)
                 d4 == setProperty(d3, "padding" \o d, css_padding(border))
             IN  setProperty(d4, "box-shadow", css_border_shadow(border))
        ELSE d1

\* a plausible slip: border-collapse is written to the block that is handed
BorderSerializer_set_css_style_handed(rs, ss, s, selector, direction, border) ==
    LET rs1 == IF s.type = "table"
               THEN SetCss(get_or_create_rule(rs, selector), selector,
                           "border-collapse", "collapse")
               ELSE rs
    IN  PutRule(rs1, selector,
                set_border_rule(RuleOf(rs1, selector), direction, border))

\* BorderSerializer.set_css_style: the border of `direction` written to the
\* block keyed by selector, by the block serializer of style s
BorderSerializer_set_css_style(rs, ss, s, selector, direction, border) ==
    LET rs1 == IF s.type = "table"
               THEN SetCss(get_or_create_rule(rs, css_selector(ss, s, "")),
                           css_selector(ss, s, ""), "border-collapse", "collapse")
               ELSE rs
    IN  PutRule(rs1, selector,
                set_border_rule(RuleOf(rs1, selector), direction, border))

RECURSIVE SetProperties(_, _)
\* for child in current_children: table_rule.setProperty(child)
SetProperties(decl, children) ==
    IF Len(children) = 0 THEN decl
    ELSE SetProperties(setProperty(decl, Head(children).name, Head(children).value),
                       Tail(children))

\* BorderInsideHorizontalSerializer.set_css_style (and the vertical serializer,
\* which inherits it): inside_border_selector is the selector the caller set,
\* or css_selector(suffix=inside_border_selector_suffix)
BorderInsideSerializer_set_css_style(rs, ss, s, inside_border_selector, direction, border) ==
    LET table_selector == css_selector(ss, s, "")
        rs1 == get_or_create_rule(rs, table_selector)
        current_children == RuleOf(rs1, table_selector)
        reordered == SetProperties(
                        <<[name |-> "border-collapse", value |-> "collapse"],
                          [name |-> "border-style", value |-> "hidden"]>>,
                        current_children)
        rs2 == PutRule(rs1, table_selector, reordered)
        rs3 == get_or_create_rule(rs2, inside_border_selector)
    IN  PutRule(rs3, inside_border_selector,
                set_border_rule(RuleOf(rs3, inside_border_selector),
                                direction, border))

(***************************************************************************)
(* Values the variables hold while a specification does not use them.      *)
(***************************************************************************)
NoStyle == [type |-> "none", id |-> "", name |-> << >>, parent_id |-> None,
            children |-> << >>]

NoNumbering == [levels |-> << >>, counters |-> << >>, next |-> 1]

\* no stylesheet serializer is at work
NoSerializer == [include_media_rules |-> TRUE, initialize_counters_in_body |-> TRUE]

\* serialize() has neither returned nor raised
NoResult == << >>

(***************************************************************************)
(* SpecToggle: the strike, double_strike and underline serializers write,  *)
(* in any order and any number of times up to MaxWrites, to the one        *)
(* declaration block of a character style (CssSpanSerializer._serialize    *)
(* hands every property the rule of css_selector()).                       *)
(***************************************************************************)
ToggleStyle == [type |-> "span", id |-> "strike", name |-> <<"s">>,
                parent_id |-> None, children |-> << >>]

ToggleSelector == css_selector(<<ToggleStyle>>, ToggleStyle, "")

InitToggle ==
    /\ style = ToggleStyle
    /\ stylesheet = <<ToggleStyle>>
    /\ rules = get_or_create_rule(<< >>, ToggleSelector)
    /\ applied = << >>
    /\ numbering = NoNumbering
    /\ pc = "toggle"
    /\ serializer = NoSerializer
    /\ result = NoResult

\* the serializer of v.prop writes to the block of the style's rule
ApplyText(v) ==
    /\ pc = "toggle"
    /\ Len(applied) < MaxWrites
    /\ rules' = PutRule(rules, ToggleSelector,
                    TextSerializer_set_css_style(RuleOf(rules, ToggleSelector), v))
    /\ applied' = Append(applied, v)
    /\ UNCHANGED <<style, numbering, stylesheet, pc, serializer, result>>

ApplyStrike == \E v \in ToggleValues("strike") : ApplyText(v)

ApplyDoubleStrike == \E v \in ToggleValues("double_strike") : ApplyText(v)

ApplyUnderline == \E v \in UnderlineValues : ApplyText(v)

NextToggle == ApplyStrike \/ ApplyDoubleStrike \/ ApplyUnderline

SpecToggle == InitToggle /\ [][NextToggle]_vars

\* the value of text-decoration-line in the style's rule
TextDecorationLine == getPropertyValue(RuleOf(rules, ToggleSelector), "text-decoration-line")

IsStrikeOn(v) == v.prop = "strike" /\ v.on

IsUnderlineOn(v) == v.prop = "underline" /\ has_line_UNDERLINE(v.line)

IsDoubleStrikeOff(v) == v.prop = "double_strike" /\ ~v.on

\* the writes made so far, the double_strike=false writes left out
AppliedCore == SelectSeq(applied, LAMBDA v : ~IsDoubleStrikeOff(v))

\* C1: strike=true and underline=true applied to an initially empty block, in
\* either order and with double_strike=false writes interleaved at any
\* position, leave text-decoration-line holding both values, space-separated,
\* the value applied first appearing first.
C1_ToggleCoexistence ==
    (pc = "toggle" /\ Len(AppliedCore) = 2) =>
        /\ (IsStrikeOn(AppliedCore[1]) /\ IsUnderlineOn(AppliedCore[2]))
                => TextDecorationLine = "line-through underline"
        /\ (IsUnderlineOn(AppliedCore[1]) /\ IsStrikeOn(AppliedCore[2]))
                => TextDecorationLine = "underline line-through"

\* C1 witness: strike=true, then double_strike=false, then underline=true
C1_Witness ==
    /\ pc = "toggle"
    /\ Len(applied) = 3
    /\ IsStrikeOn(applied[1])
    /\ IsDoubleStrikeOff(applied[2])
    /\ IsUnderlineOn(applied[3])
    /\ TextDecorationLine = "line-through underline"

\* the value a write asks for text-decoration-line
RequestedLine(v) ==
    IF v.prop = "underline"
    THEN (IF has_line_UNDERLINE(v.line) THEN "underline" ELSE "none")
    ELSE (IF v.on THEN "line-through" ELSE "none")

\* the "on" value of the complementary toggle of a write
ComplementaryOn(v) ==
    IF v.prop = "underline" THEN "line-through" ELSE "underline"

\* C2: a toggle write overwrites text-decoration-line only when it is empty
\* or `none`; an "on" write onto the complementary toggle's "on" value
\* concatenates; in every other case the value is left untouched, so that a
\* value other than `none` is never turned into `none`.
C2_ToggleMerge ==
    [][(pc = "toggle" /\ applied' # applied) =>
        LET v == applied'[Len(applied')]
            old == TextDecorationLine
            new == TextDecorationLine'
        IN  /\ (old \in {"", "none"}) => new = RequestedLine(v)
            /\ (old = ComplementaryOn(v) /\ RequestedLine(v) # "none")
                    => new = Join(<<old, RequestedLine(v)>>, " ")
            /\ (old \notin {"", "none"} /\
                    ~(old = ComplementaryOn(v) /\ RequestedLine(v) # "none"))
                    => new = old
            /\ (old \in {"line-through", "underline"}) => new # "none"]_vars

\* C2 witness: strike=true has been followed by double_strike=false and the
\* property still holds line-through
C2_Witness ==
    /\ pc = "toggle"
    /\ Len(applied) >= 2
    /\ IsStrikeOn(applied[1])
    /\ IsDoubleStrikeOff(applied[2])
    /\ TextDecorationLine = "line-through"

(***************************************************************************)
(* SpecBorder: border serializers write to the rules of the block          *)
(* serializer of a character, paragraph or table style.  A border of a     *)
(* table is written to the table's own rule (table_properties) or to the   *)
(* default cell's rule (default_cell), an inside border to the rule of     *)
(* css_selector(suffix=inside_border_selector_suffix).                     *)
(***************************************************************************)
BorderStyles ==
    { [type |-> "span", id |-> "b", name |-> <<"b">>, parent_id |-> None,
       children |-> << >>],
      [type |-> "p", id |-> "b", name |-> <<"b">>, parent_id |-> None,
       children |-> << >>],
      [type |-> "table", id |-> "b", name |-> <<"b">>, parent_id |-> None,
       children |-> << >>] }

BareBorder(st) ==
    [color |-> None, padding |-> NoLength, shadow |-> FALSE, style |-> st,
     width |-> NoLength]

FullBorder(st) ==
    [color |-> "#ff0000", padding |-> Emu(12700), shadow |-> TRUE, style |-> st,
     width |-> Emu(12700)]

BorderValues ==
    {BareBorder("none"), FullBorder("none"), BareBorder("solid"),
     FullBorder("solid"),
     [color |-> "#0000ff", padding |-> Emu(0), shadow |-> FALSE,
      style |-> "dashed", width |-> Emu(6350)]}

\* the directions of the border properties of a style of the kind
BorderDirections(s) ==
    CASE s.type = "span" -> {""}
      [] s.type = "p"    -> {"top", "bottom"}
      [] OTHER           -> {"top", "left"}

\* the rules a border property of the style is handed
BorderTargets(ss, s) ==
    IF s.type = "table"
    THEN {css_selector(ss, s, ""), css_selector(ss, s, "td")}
    ELSE {css_selector(ss, s, "")}

InitBorder ==
    /\ style \in BorderStyles
    /\ stylesheet = <<style>>
    /\ rules = get_or_create_rule(<< >>, css_selector(stylesheet, style, ""))
    /\ applied = << >>
    /\ numbering = NoNumbering
    /\ pc = "border"
    /\ serializer = NoSerializer
    /\ result = NoResult

ApplyBorder ==
    /\ pc = "border"
    /\ Len(applied) < MaxBorderWrites
    /\ \E direction \in BorderDirections(style), border \in BorderValues,
          selector \in BorderTargets(stylesheet, style) :
        /\ rules' = BorderSerializer_set_css_style(
                        get_or_create_rule(rules, selector), stylesheet, style,
                        selector, direction, border)
        /\ applied' = Append(applied, [prop |-> "border" \o DirectionSuffix(direction),
                                       direction |-> direction,
                                       selector |-> selector, border |-> border])
    /\ UNCHANGED <<style, numbering, stylesheet, pc, serializer, result>>

ApplyInsideBorder ==
    /\ pc = "border"
    /\ style.type = "table"
    /\ Len(applied) < MaxBorderWrites
    /\ \E inside \in {[prop |-> "border_inside_horizontal", direction |-> "bottom",
                       suffix |-> "td"],
                      [prop |-> "border_inside_vertical", direction |-> "left",
                       suffix |-> "td + td"]},
          border \in BorderValues :
        LET selector == css_selector(stylesheet, style, inside.suffix)
        IN  /\ rules' = BorderInsideSerializer_set_css_style(
                            rules, stylesheet, style, selector,
                            inside.direction, border)
            /\ applied' = Append(applied, [prop |-> inside.prop,
                                           direction |-> inside.direction,
                                           selector |-> selector,
                                           border |-> border])
    /\ UNCHANGED <<style, numbering, stylesheet, pc, serializer, result>>

NextBorder == ApplyBorder \/ ApplyInsideBorder

SpecBorder == InitBorder /\ [][NextBorder]_vars

\* the declarations a border of style 'none' must not write
SuppressedNames ==
    UNION {{"border" \o d \o "-width", "border" \o d \o "-color", "padding" \o d} :
            d \in {"", "-top", "-bottom", "-left", "-right"}}
    \cup {"box-shadow"}

\* C5: serializing a Border whose style is 'none' writes the border-style
\* declaration only: whatever its width, color, padding and shadow hold, no
\* border-width, border-color, padding or box-shadow declaration of any rule
\* is added, changed or removed, and the block it is written to changes in
\* its border-style declaration alone.
C5_BorderNone ==
    [][(pc = "border" /\ applied' # applied /\
        applied'[Len(applied')].border.style = "none") =>
        LET w == applied'[Len(applied')]
            table_selector == css_selector(stylesheet, style, "")
        IN  /\ \A sel \in Selectors(rules'), name \in SuppressedNames :
                    getPropertyValue(RuleOf(rules', sel), name) =
                    getPropertyValue(RuleOf(rules, sel), name)
            /\ (style.type # "table" \/ w.selector # table_selector) =>
                    RuleOf(rules', w.selector) =
                    setProperty(RuleOf(rules, w.selector),
                                "border" \o DirectionSuffix(w.direction) \o "-style",
                                "none")
            /\ (style.type # "table") =>
                    Selectors(rules') = Selectors(rules)]_vars

\* C5 witness: a border of style 'none' with width, color, padding and shadow
\* set has been written after a solid border of the same side, whose width
\* is still there
C5_Witness ==
    /\ pc = "border"
    /\ Len(applied) = 2
    /\ applied[1].border = FullBorder("solid")
    /\ applied[2].border = FullBorder("none")
    /\ applied[1].selector = applied[2].selector
    /\ applied[1].direction = applied[2].direction
    /\ LET decl == RuleOf(rules, applied[2].selector)
           d == DirectionSuffix(applied[2].direction)
       IN  /\ getPropertyValue(decl, "border" \o d \o "-style") = "none"
           /\ getPropertyValue(decl, "border" \o d \o "-width") = "1.00pt"
           /\ getPropertyValue(decl, "padding" \o d) = "1.0pt"
           /\ getPropertyValue(decl, "box-shadow") = "1.00pt 1.00pt"

(***************************************************************************)
(* Table styles (api.TableStyle).  An optional field is << >> for None and *)
(* <<v>> for a value v.  A table style adds to the fields of a style the   *)
(* fields border_top, col_band_size, row_band_size, bold, default_cell,    *)
(* default_row and the conditional formatting slots odd_columns,           *)
(* even_columns, odd_rows and even_rows; a slot holds a block              *)
(* (api.TableConditionalFormatting), default_cell the properties           *)
(* [border_top, valign] of a cell and default_row the properties [split]   *)
(* of a row.                                                               *)
(***************************************************************************)
MaxBand == 3

\* the fields of a TableStyle, in the order fields(self) lists them
TableStyleFields ==
    <<"border_top", "col_band_size", "row_band_size", "bold", "default_cell",
      "default_row", "odd_columns", "even_columns", "odd_rows", "even_rows">>

\* the fields of a TableConditionalFormatting block, in the order of fields(self)
BlockFields ==
    <<"border_top", "col_band_size", "row_band_size", "bold", "default_cell",
      "default_row">>

\* the conditional formatting slots of a TableStyle, in declaration order
ConditionalFields == <<"odd_columns", "even_columns", "odd_rows", "even_rows">>

\* sorted(fields(TableRowProperties), key=lambda x: x.name)
TableRowFields == <<"split">>

\* sorted(fields(TableCellProperties), key=lambda x: x.name)
TableCellFields == <<"border_top", "valign">>

RECURSIVE ActiveProperties(_, _)
\* the (name, value) tuples of the fields of obj that are not None
ActiveProperties(obj, names) ==
    IF Len(names) = 0 THEN << >>
    ELSE (IF obj[Head(names)] # << >>
          THEN <<[prop |-> Head(names), value |-> obj[Head(names)][1]]>>
          ELSE << >>) \o ActiveProperties(obj, Tail(names))

\* TableConditionalFormatting.table_properties(active=True) of a table style
table_properties(s) == ActiveProperties(s, TableStyleFields)

\* TableConditionalFormatting.table_properties(True) of a slot's block
block_table_properties(block) == ActiveProperties(block, BlockFields)

\* TableStyle.table_conditional_formatting_properties(): the slots in use
table_conditional_formatting_properties(s) ==
    ActiveProperties(s, ConditionalFields)

\* TableRowProperties.table_row_properties(True)
table_row_properties(row) == ActiveProperties(row, TableRowFields)

\* TableCellProperties.table_cell_properties(True)
table_cell_properties(cell) == ActiveProperties(cell, TableCellFields)

(***************************************************************************)
(* CssTableSerializer: the banding selectors.                              *)
(***************************************************************************)
\* n = self.style.col_band_size or 1
band_size_or_1(size) == IF size = << >> \/ size = <<0>> THEN 1 ELSE size[1]

\* a plausible slip: the even band starts one offset early
band_range_overlap(n, odd) ==
    LET start == IF odd THEN 1 ELSE n
        stop == IF odd THEN n + 1 ELSE 2 * n + 1
    IN  [i \in 1..(stop - start) |-> start + i - 1]

\* range(start, stop) of _col_row_selectors
band_range(n, odd) ==
    LET start == IF odd THEN 1 ELSE n + 1
        stop == IF odd THEN n + 1 ELSE 2 * n + 1
    IN  [i \in 1..(stop - start) |-> start + i - 1]

\* f'{element}:nth-child({bands}n+{x})'
nth_child(element, bands, x) ==
    element \o ":nth-child(" \o ToString(bands) \o "n+" \o ToString(x) \o ")"

\* CssTableSerializer._col_row_selectors
col_row_selectors(ss, s, column, odd, row, suffix) ==
    LET n == band_size_or_1(IF column THEN s.col_band_size ELSE s.row_band_size)
        element == IF column THEN row \o " td" ELSE row
        bands == 2 * n
        xs == band_range(n, odd)
    IN  [i \in 1..Len(xs) |->
            css_selector(ss, s, Join(<<nth_child(element, bands, xs[i]), suffix>>, ""))]

\* CssTableSerializer.col_row_selector
col_row_selector(ss, s, column, odd, row, suffix) ==
    Join(col_row_selectors(ss, s, column, odd, row, suffix), ", ")

\* CssTableSerializer.odd_row_selector
odd_row_selector(ss, s, suffix) == col_row_selector(ss, s, FALSE, TRUE, "tr", suffix)

\* CssTableSerializer.even_row_selector
even_row_selector(ss, s, suffix) == col_row_selector(ss, s, FALSE, FALSE, "tr", suffix)

\* CssTableSerializer.odd_column_selector
odd_column_selector(ss, s, row, suffix) == col_row_selector(ss, s, TRUE, TRUE, row, suffix)

\* CssTableSerializer.even_column_selector
even_column_selector(ss, s, row, suffix) == col_row_selector(ss, s, TRUE, FALSE, row, suffix)

\* CssTableSerializer.first_odd_row_selector
first_odd_row_selector(ss, s) == col_row_selectors(ss, s, FALSE, TRUE, "tr", "")[1]

\* CssTableSerializer.first_even_row_selector
first_even_row_selector(ss, s) == col_row_selectors(ss, s, FALSE, FALSE, "tr", "")[1]

(***************************************************************************)
(* The strategies of the conditional formatting slots (OddRowsSerializer,  *)
(* EvenRowsSerializer, OddColumnsSerializer, EvenColumnsSerializer).       *)
(***************************************************************************)
\* cell_selector of the serializer registered for the slot
cell_selector(ss, s, slot) ==
    CASE slot = "odd_rows"     -> odd_row_selector(ss, s, " td")
      [] slot = "even_rows"    -> even_row_selector(ss, s, " td")
      [] slot = "odd_columns"  -> odd_column_selector(ss, s, "tr", "")
      [] slot = "even_columns" -> even_column_selector(ss, s, "tr", "")

\* row_selector of the serializer registered for the slot
row_selector(ss, s, slot) ==
    CASE slot = "odd_rows"  -> odd_row_selector(ss, s, "")
      [] slot = "even_rows" -> even_row_selector(ss, s, "")
      [] OTHER              -> None

\* border_top_selector of the serializer registered for the slot
border_top_selector(ss, s, slot) ==
    CASE slot = "odd_rows"     -> Join(<<first_odd_row_selector(ss, s), "td">>, " ")
      [] slot = "even_rows"    -> Join(<<first_even_row_selector(ss, s), "td">>, " ")
      [] slot = "odd_columns"  -> odd_column_selector(ss, s, "tr:first-of-type", "")
      [] slot = "even_columns" -> even_column_selector(ss, s, "tr:first-of-type", "")

(***************************************************************************)
(* The property serializers of tables, rows and cells, and                 *)
(* CssBlockSerializer.serialize_properties.                                *)
(***************************************************************************)
\* TableCellVerticalAlignSerializer.set_css_style
TableCellVerticalAlignSerializer_set_css_style(decl, value) ==
    setProperty(decl, "vertical-align", IF value = "center" THEN "middle" ELSE value)

\* RowSplitSerializer.set_css_style
RowSplitSerializer_set_css_style(decl, value) ==
    setProperty(decl, "break-inside", IF value = TRUE THEN "avoid" ELSE "auto")

\* factory.get_property_serializer(self, prop, value).set_css_style(css_style),
\* css_style being the block keyed by selector, for the properties of a
\* block, a row, a cell or a paragraph (MarginLeftSerializer and
\* TextIndentSerializer write a length in inches); col_band_size,
\* row_band_size, default_cell and default_row are registered to
\* NoopSerializer
PropertySerializer_set_css_style(rs, ss, s, selector, prop, value) ==
    CASE prop = "bold" ->
            PutRule(rs, selector,
                    BoldSerializer_set_css_style(RuleOf(rs, selector), [on |-> value]))
      [] prop = "border_top" ->
            BorderSerializer_set_css_style(rs, ss, s, selector, "top", value)
      [] prop = "valign" ->
            PutRule(rs, selector,
                    TableCellVerticalAlignSerializer_set_css_style(
                        RuleOf(rs, selector), value))
      [] prop = "split" ->
            PutRule(rs, selector,
                    RowSplitSerializer_set_css_style(RuleOf(rs, selector), value))
      [] prop = "margin_left" ->
            SetCss(rs, selector, "margin-left", FormatInches(value))
      [] prop = "text_indent" ->
            SetCss(rs, selector, "text-indent", FormatInches(value))
      [] OTHER -> rs

RECURSIVE SerializeEach(_, _, _, _, _)
\* for prop_tuple in properties: serializer.set_css_style(css_style)
SerializeEach(rs, ss, s, selector, properties) ==
    IF Len(properties) = 0 THEN rs
    ELSE SerializeEach(
            PropertySerializer_set_css_style(rs, ss, s, selector,
                Head(properties).prop, Head(properties).value),
            ss, s, selector, Tail(properties))

\* CssBlockSerializer.serialize_properties
serialize_properties(rs, ss, s, selector, properties) ==
    SerializeEach(get_or_create_rule(rs, selector), ss, s, selector, properties)

\* k.startswith('border'), for the border properties of a cell other than the
\* inside borders
IsBorderProperty(k) ==
    k \in {"border_bottom", "border_left", "border_right", "border_top"}

\* getattr(self, f'{k}_selector')()
border_selector(ss, s, slot, k) ==
    CASE k = "border_top" -> border_top_selector(ss, s, slot)
      [] OTHER            -> None

RECURSIVE ConditionalCellProperties(_, _, _, _, _, _)
\* for k, v in cell_properties, of TableConditionalFormatting.set_css_style
ConditionalCellProperties(rs, ss, s, slot, selector, cell_properties) ==
    IF Len(cell_properties) = 0 THEN rs
    ELSE LET k == Head(cell_properties).prop
             v == Head(cell_properties).value
             target == IF IsBorderProperty(k)
                       THEN border_selector(ss, s, slot, k)
                       ELSE selector
             rs1 == get_or_create_rule(rs, target)
         IN  ConditionalCellProperties(
                PropertySerializer_set_css_style(rs1, ss, s, target, k, v),
                ss, s, slot, selector, Tail(cell_properties))

\* a plausible slip: the properties of the block are written to the rule the
\* serializer is handed, the rule of the table itself
TableConditionalFormatting_set_css_style_handed(rs, ss, s, slot, block) ==
    serialize_properties(rs, ss, s, css_selector(ss, s, ""),
                         block_table_properties(block))

\* TableConditionalFormatting.set_css_style of the serializer of a slot
TableConditionalFormatting_set_css_style(rs, ss, s, slot, block) ==
    LET selector == cell_selector(ss, s, slot)
        rs1 == serialize_properties(rs, ss, s, selector,
                                    block_table_properties(block))
        rs2 == IF block.default_row # << >>
               THEN serialize_properties(rs1, ss, s, row_selector(ss, s, slot),
                        table_row_properties(block.default_row[1]))
               ELSE rs1
    IN  IF block.default_cell # << >>
        THEN ConditionalCellProperties(rs2, ss, s, slot, selector,
                table_cell_properties(block.default_cell[1]))
        ELSE rs2

\* the steps of one call of serialize_properties: the rule of the selector is
\* created, then each property is handed to its serializer
WorkOf(selector, properties) ==
    <<[kind |-> "begin", selector |-> selector, prop |-> "", value |-> << >>]>> \o
    [i \in 1..Len(properties) |->
        [kind |-> "property", selector |-> selector,
         prop |-> properties[i].prop, value |-> properties[i].value]]

\* CssTableSerializer._serialize, as the sequence of its steps
CssTableSerializer_serialize(ss, s) ==
    WorkOf(css_selector(ss, s, ""), table_properties(s)) \o
    WorkOf(css_selector(ss, s, ""), table_conditional_formatting_properties(s)) \o
    (IF s.default_row # << >>
     THEN WorkOf(css_selector(ss, s, "tr"), table_row_properties(s.default_row[1]))
     ELSE << >>) \o
    (IF s.default_cell # << >>
     THEN WorkOf(css_selector(ss, s, "td"), table_cell_properties(s.default_cell[1]))
     ELSE << >>)

(***************************************************************************)
(* SpecTable: CssTableSerializer._serialize of one table style, step by    *)
(* step.                                                                   *)
(***************************************************************************)
NoBlock ==
    [border_top |-> << >>, col_band_size |-> << >>, row_band_size |-> << >>,
     bold |-> << >>, default_cell |-> << >>, default_row |-> << >>]

\* a block that sets bold=True only
OnlyBold == [NoBlock EXCEPT !.bold = <<TRUE>>]

\* a block with a default cell and a default row
CellBlock ==
    [NoBlock EXCEPT !.bold = <<FALSE>>,
        !.default_cell = <<[border_top |-> <<FullBorder("solid")>>,
                            valign |-> <<"center">>]>>,
        !.default_row = <<[split |-> <<TRUE>>]>>]

\* a block with a border of its own and a default cell
ColumnBlock ==
    [NoBlock EXCEPT !.border_top = <<BareBorder("none")>>,
        !.default_cell = <<[border_top |-> << >>, valign |-> <<"top">>]>>]

RowBlocks == {<< >>, <<OnlyBold>>, <<CellBlock>>}

ColumnBlocks == {<< >>, <<OnlyBold>>, <<ColumnBlock>>}

\* the blocks of odd_columns and even_columns
ColumnSlots ==
    {cols \in ColumnBlocks \X ColumnBlocks : cols[2] \in {<< >>, cols[1]}}

BandSizes == {<< >>} \cup {<<n>> : n \in 1..MaxBand}

\* the fields of the table style itself
OwnTableProperties ==
    { [border_top |-> << >>, bold |-> << >>, default_cell |-> << >>,
       default_row |-> << >>],
      [border_top |-> <<FullBorder("solid")>>, bold |-> <<TRUE>>,
       default_cell |-> <<[border_top |-> << >>, valign |-> <<"center">>]>>,
       default_row |-> <<[split |-> <<FALSE>>]>>] }

TableChild == [type |-> "table", id |-> "c", name |-> <<"c">>, parent_id |-> "t",
               children |-> << >>]

TableStyles ==
    { [type |-> "table", id |-> "t", name |-> <<"t">>, parent_id |-> None,
       children |-> ch,
       border_top |-> own.border_top, bold |-> own.bold,
       default_cell |-> own.default_cell, default_row |-> own.default_row,
       col_band_size |-> cb, row_band_size |-> rb,
       odd_columns |-> cols[1], even_columns |-> cols[2], odd_rows |-> orw,
       even_rows |-> erw] :
        ch \in {<< >>, <<"c">>}, own \in OwnTableProperties,
        cb \in BandSizes, rb \in BandSizes,
        cols \in ColumnSlots,
        orw \in RowBlocks, erw \in RowBlocks }

InitTable ==
    /\ style \in TableStyles
    /\ stylesheet = IF style.children = << >> THEN <<style>>
                    ELSE <<style, TableChild>>
    /\ rules = << >>
    /\ applied = << >>
    /\ numbering = NoNumbering
    /\ pc = "table"
    /\ serializer = NoSerializer
    /\ result = NoResult

\* the step _serialize is at
TableStep == CssTableSerializer_serialize(stylesheet, style)[Len(applied) + 1]

TableStepEnabled ==
    /\ pc = "table"
    /\ Len(applied) < Len(CssTableSerializer_serialize(stylesheet, style))

\* serialize_properties gets or creates the rule of its selector
BeginProperties ==
    /\ TableStepEnabled
    /\ TableStep.kind = "begin"
    /\ rules' = get_or_create_rule(rules, TableStep.selector)
    /\ applied' = Append(applied, TableStep)
    /\ UNCHANGED <<style, numbering, stylesheet, pc, serializer, result>>

\* the serializer of a property of the table, its default row or its default
\* cell writes to the rule it is handed
SerializeTableProperty ==
    /\ TableStepEnabled
    /\ TableStep.kind = "property"
    /\ TableStep.prop \notin {ConditionalFields[i] : i \in 1..Len(ConditionalFields)}
    /\ rules' = PropertySerializer_set_css_style(rules, stylesheet, style,
                    TableStep.selector, TableStep.prop, TableStep.value)
    /\ applied' = Append(applied, TableStep)
    /\ UNCHANGED <<style, numbering, stylesheet, pc, serializer, result>>

\* the serializer of a conditional formatting slot writes the rules of the slot
SerializeConditionalFormatting ==
    /\ TableStepEnabled
    /\ TableStep.kind = "property"
    /\ TableStep.prop \in {ConditionalFields[i] : i \in 1..Len(ConditionalFields)}
    /\ rules' = TableConditionalFormatting_set_css_style(rules, stylesheet, style,
                    TableStep.prop, TableStep.value)
    /\ applied' = Append(applied, TableStep)
    /\ UNCHANGED <<style, numbering, stylesheet, pc, serializer, result>>

NextTable == BeginProperties \/ SerializeTableProperty \/ SerializeConditionalFormatting

SpecTable == InitTable /\ [][NextTable]_vars

\* the properties serialized so far
AppliedProps == {applied[i].prop : i \in 1..Len(applied)}

\* the selector list a band is expected to have: one entry per offset k, the
\* selector of the style with `element:nth-child(2Nn+k)suffix` appended
ExpectedBand(column, N, offsets, suffix) ==
    [i \in 1..Len(offsets) |->
        css_selector(stylesheet, style,
            (IF column THEN "tr td" ELSE "tr") \o ":nth-child(" \o
            ToString(2 * N) \o "n+" \o ToString(offsets[i]) \o ")" \o suffix)]

\* the offsets 1..N and N+1..2N
OddOffsets(N) == [k \in 1..N |-> k]

EvenOffsets(N) == [k \in 1..N |-> N + k]

\* C3: for every row_band_size N >= 1, and likewise every col_band_size N,
\* the odd-band selector list has exactly N entries, using :nth-child(2Nn+k)
\* for k = 1..N, the even-band list has exactly N entries, using
\* k = N+1..2N, the two sets of offsets are disjoint and together equal
\* {1..2N}; the rules of the banding slots serialized so far are keyed by
\* these lists.
C3_BandPartition ==
    pc = "table" =>
        \A column \in BOOLEAN :
            LET size == IF column THEN style.col_band_size ELSE style.row_band_size
            IN  (size # << >> /\ size[1] >= 1) =>
                LET N == size[1]
                    odd == col_row_selectors(stylesheet, style, column, TRUE, "tr", "")
                    even == col_row_selectors(stylesheet, style, column, FALSE, "tr", "")
                    oddx == {band_range(N, TRUE)[i] : i \in 1..Len(band_range(N, TRUE))}
                    evenx == {band_range(N, FALSE)[i] : i \in 1..Len(band_range(N, FALSE))}
                    sfx == IF column THEN "" ELSE " td"
                    oddslot == IF column THEN "odd_columns" ELSE "odd_rows"
                    evenslot == IF column THEN "even_columns" ELSE "even_rows"
                IN  /\ Len(odd) = N
                    /\ Len(even) = N
                    /\ odd = ExpectedBand(column, N, OddOffsets(N), "")
                    /\ even = ExpectedBand(column, N, EvenOffsets(N), "")
                    /\ oddx \cap evenx = {}
                    /\ oddx \cup evenx = 1..(2 * N)
                    /\ (oddslot \in AppliedProps) =>
                            HasRule(rules,
                                Join(ExpectedBand(column, N, OddOffsets(N), sfx), ", "))
                    /\ (evenslot \in AppliedProps) =>
                            HasRule(rules,
                                Join(ExpectedBand(column, N, EvenOffsets(N), sfx), ", "))

\* C3 witness: a childless table with row_band_size 3 whose odd_rows and
\* even_rows slots have been serialized to the rules of their three offsets
C3_Witness ==
    /\ pc = "table"
    /\ style.row_band_size = <<3>>
    /\ style.children = << >>
    /\ {"odd_rows", "even_rows"} \subseteq AppliedProps
    /\ HasRule(rules, "table.t tr:nth-child(6n+1) td, " \o
                      "table.t tr:nth-child(6n+2) td, " \o
                      "table.t tr:nth-child(6n+3) td")
    /\ HasRule(rules, "table.t tr:nth-child(6n+4) td, " \o
                      "table.t tr:nth-child(6n+5) td, " \o
                      "table.t tr:nth-child(6n+6) td")

\* the selector C4 names, for the id of the style
OddRowsCellSelector ==
    "table." \o style.id \o " tr:nth-child(4n+1) td, " \o
    "table." \o style.id \o " tr:nth-child(4n+2) td"

\* the case of C4: a table style without child styles, with row_band_size 2,
\* whose odd_rows block sets only bold=True
OddRowsBoldCase ==
    /\ pc = "table"
    /\ style.children = << >>
    /\ style.row_band_size = <<2>>
    /\ style.odd_rows = <<OnlyBold>>

MaxLevels == 3

\* the values of <w:start> in the model
LevelStarts == {1, 3}

\* f'counter{xml_element.id}'
default_name(id) == "counter" \o ToString(id)

\* the name of the CounterList: the first of (name, style_link) that is not
\* None, else the default name, with its whitespace removed
CounterList_name(xml_element) ==
    LET names == SelectSeq(<<xml_element.name, xml_element.style_link>>,
                           LAMBDA x : x # << >>)
    IN  IF Len(names) = 0 THEN default_name(xml_element.id)
        ELSE Join(StripWhitespace(names[1][1]), "")

\* f'{counter_definition.name}-L{number}'
counter_name(list_name, number) == list_name \o "-L" \o ToString(number)

HasCounter(counters, name) == \E i \in 1..Len(counters) : counters[i].name = name

\* counter_definition.counters.get(name)
CounterOf(counters, name) ==
    counters[CHOOSE i \in 1..Len(counters) : counters[i].name = name]

\* counter_definition.counters[counter.name] = counter
PutCounter(counters, counter) ==
    IF HasCounter(counters, counter.name)
    THEN [i \in 1..Len(counters) |->
            IF counters[i].name = counter.name THEN counter ELSE counters[i]]
    ELSE Append(counters, counter)

\* a plausible slip: `if not restart` for `if restart is None`
restart_level_falsy(number, restart) ==
    IF restart = << >> \/ restart = <<0>> THEN <<number - 1>>
    ELSE <<restart[1] - 1>>

\* the level a level restarts at (parse_level): none when level_restart is 0,
\* the level before when there is no level_restart, else level_restart - 1
restart_level(number, restart) ==
    IF restart # <<0>>
    THEN (IF restart = << >> THEN <<number - 1>> ELSE <<restart[1] - 1>>)
    ELSE << >>

\* DocxParser.parse_level: the counters parsed so far, with the restart set
\* of the level restarted at updated, and the new counter
parse_level(counters, list_name, xml_level) ==
    LET number == xml_level.level_number
        name == counter_name(list_name, number)
        counter == [name |-> name, start |-> xml_level.level_start, restart |-> {}]
        restart == restart_level(number, xml_level.level_restart)
        restart_add == IF counter.start # 1
                       THEN name \o " " \o ToString(counter.start - 1)
                       ELSE name
    IN  [counter |-> counter,
         counters |->
            IF restart # << >> /\ HasCounter(counters, counter_name(list_name, restart[1]))
            THEN [i \in 1..Len(counters) |->
                    IF counters[i].name = counter_name(list_name, restart[1])
                    THEN [counters[i] EXCEPT !.restart = @ \cup {restart_add}]
                    ELSE counters[i]]
            ELSE counters]

\* Level.css_counter_resets (numbering.py): the set `levels` of the counters
\* to reset at the level `self`
css_counter_resets(list_name, xml_levels, self) ==
    LET next_levels == {i \in 1..Len(xml_levels) :
                            xml_levels[i].level_number > self.level_number}
        restart(level) == IF level.level_restart = << >> \/ level.level_restart = <<0>>
                          THEN level.level_number
                          ELSE level.level_restart[1]
        counter(level) == IF level.level_start # 0 /\ level.level_start # 1
                          THEN counter_name(list_name, level.level_number) \o " " \o
                               ToString(level.level_start - 1)
                          ELSE counter_name(list_name, level.level_number)
    IN  {counter(xml_levels[i]) : i \in
            {j \in next_levels :
                /\ restart(xml_levels[j]) - 1 = self.level_number
                /\ (xml_levels[j].level_restart = << >> \/
                    xml_levels[j].level_restart # <<0>>)}}

(***************************************************************************)
(* SpecNumbering: DocxParser.parse_abstract_numbering parses the levels of *)
(* one abstract numbering, in document order; the restart sets of the      *)
(* legacy Level.css_counter_resets are computed from the same levels.      *)
(***************************************************************************)
XmlLevels ==
    [level_number : 0..(MaxLevels - 1), level_start : LevelStarts,
     level_restart : {<< >>} \cup {<<r>> : r \in 0..2}]

\* the levels of an abstract numbering: every level number at most once
XmlLevelLists ==
    {ls \in UNION {[1..n -> XmlLevels] : n \in 1..MaxLevels} :
        \A i, j \in 1..Len(ls) :
            i # j => ls[i].level_number # ls[j].level_number}

XmlAbstractNum ==
    [id |-> 1, name |-> <<<<"m", "y", " ", "l", "i", "s", "t">>>>,
     style_link |-> << >>]

InitNumbering ==
    /\ numbering \in {[list_name |-> CounterList_name(XmlAbstractNum),
                       levels |-> ls, counters |-> << >>, next |-> 1,
                       resets |-> << >>] : ls \in XmlLevelLists}
    /\ style = NoStyle
    /\ stylesheet = << >>
    /\ rules = << >>
    /\ applied = << >>
    /\ pc = "numbering"
    /\ serializer = NoSerializer
    /\ result = NoResult

\* one turn of the loop of parse_abstract_numbering
ParseLevel ==
    /\ pc = "numbering"
    /\ numbering.next <= Len(numbering.levels)
    /\ LET parsed == parse_level(numbering.counters, numbering.list_name,
                                 numbering.levels[numbering.next])
       IN  numbering' = [numbering EXCEPT
                !.counters = PutCounter(parsed.counters, parsed.counter),
                !.next = @ + 1]
    /\ UNCHANGED <<rules, applied, style, stylesheet, pc, serializer, result>>

\* Level.css_counter_resets of every level
CssCounterResets ==
    /\ pc = "numbering"
    /\ numbering.next > Len(numbering.levels)
    /\ numbering.resets = << >>
    /\ numbering' = [numbering EXCEPT !.resets =
            [i \in 1..Len(numbering.levels) |->
                css_counter_resets(numbering.list_name, numbering.levels,
                                   numbering.levels[i])]]
    /\ UNCHANGED <<rules, applied, style, stylesheet, pc, serializer, result>>

NextNumbering == ParseLevel \/ CssCounterResets

SpecNumbering == InitNumbering /\ [][NextNumbering]_vars

\* the names a level can have in a restart set: its counter name, with or
\* without a start suffix
RestartNames(list_name, level) ==
    {counter_name(list_name, level.level_number)} \cup
    {counter_name(list_name, level.level_number) \o " " \o ToString(st - 1) :
        st \in LevelStarts \cup {0, 1}}

\* C6: a level that declares level_restart=0 never has its counter name, with
\* or without a start suffix, in any other level's restart set, even when it
\* is the positional child of some level; neither in the restart sets of the
\* parsed counters nor in those of Level.css_counter_resets.
C6_NeverRestart ==
    pc = "numbering" =>
        \A i \in 1..Len(numbering.levels) :
            numbering.levels[i].level_restart = <<0>> =>
                /\ \A c \in 1..Len(numbering.counters) :
                        numbering.counters[c].restart \cap
                        RestartNames(numbering.list_name, numbering.levels[i]) = {}
                /\ \A r \in 1..Len(numbering.resets) :
                        numbering.resets[r] \cap
                        RestartNames(numbering.list_name, numbering.levels[i]) = {}

\* C6 witness: levels 0, 1, 2 in order, level 1 declaring level_restart=0:
\* level 0 restarts nothing although level 1 is its positional child, while
\* level 1 restarts level 2
C6_Witness ==
    /\ pc = "numbering"
    /\ Len(numbering.levels) = 3
    /\ numbering.next > 3
    /\ numbering.resets # << >>
    /\ \A i \in 1..3 : numbering.levels[i].level_number = i - 1
    /\ numbering.levels[2].level_restart = <<0>>
    /\ numbering.levels[3].level_restart = << >>
    /\ numbering.levels[3].level_start = 1
    /\ CounterOf(numbering.counters, "mylist-L0").restart = {}
    /\ CounterOf(numbering.counters, "mylist-L1").restart = {"mylist-L2"}
    /\ numbering.resets[1] = {}
    /\ numbering.resets[2] = {"mylist-L2"}

\* the name a level is entered into a restart set with
RestartEntry(list_name, level) ==
    IF level.level_start # 1
    THEN counter_name(list_name, level.level_number) \o " " \o
         ToString(level.level_start - 1)
    ELSE counter_name(list_name, level.level_number)

\* C7: after a numbering definition has been parsed, the restart set of each
\* level L contains exactly the counter names of the levels L' > L of the
\* definition that declare level_restart = L+1 or declare no level_restart
\* and have L' = L+1, each name suffixed with its start-1 when its start is
\* not 1.
C7_RestartSets ==
    (pc = "numbering" /\ numbering.next > Len(numbering.levels)) =>
        \A i \in 1..Len(numbering.levels) :
            LET L == numbering.levels[i].level_number
            IN  CounterOf(numbering.counters,
                          counter_name(numbering.list_name, L)).restart =
                {RestartEntry(numbering.list_name, numbering.levels[j]) :
                    j \in {k \in 1..Len(numbering.levels) :
                        /\ numbering.levels[k].level_number > L
                        /\ \/ numbering.levels[k].level_restart = <<L + 1>>
                           \/ /\ numbering.levels[k].level_restart = << >>
                              /\ numbering.levels[k].level_number = L + 1}}

(***************************************************************************)
(* Paragraph styles with a counter (api.ParagraphStyle, api.Counter).  A   *)
(* paragraph style adds to the fields of a style the fields bold,          *)
(* margin_left, text_indent and counter; a counter is a record [name,      *)
(* style, text, restart, suffix, justification, bold, margin_left,         *)
(* text_indent, counter_list].  The text of a counter is the sequence of   *)
(* the tokens re.split(r'({.*?})', text) yields, a token being a           *)
(* reference to a counter ([ref |-> TRUE, s |-> name]) or literal text;    *)
(* counter_list is the sequence of the [name, style] of the counters of    *)
(* its list.                                                               *)
(***************************************************************************)
\* sorted(fields(TextFormatting), key=name), of the fields of the model
TextFields == <<"bold">>

\* sorted(fields(ParagraphFormatting) - fields(TextFormatting), key=name)
ParagraphOnlyFields == <<"counter", "margin_left", "text_indent">>

\* sorted(fields(ParagraphFormatting), key=name)
ParagraphFields == <<"bold", "counter", "margin_left", "text_indent">>

\* TextFormatting.text_properties(True)
text_properties(obj) == ActiveProperties(obj, TextFields)

\* ParagraphFormatting.paragraph_properties(True, with_text_fields)
paragraph_properties(obj, with_text_fields) ==
    ActiveProperties(obj, IF with_text_fields THEN ParagraphFields
                          ELSE ParagraphOnlyFields)

\* next((x for x in (a, b) if x is not None), None)
FirstNotNone(a, b) == IF a # << >> THEN a ELSE b

\* the counter names of the model in the order sorted() gives them
SortedCounterNames == <<"mylist-L0", "mylist-L1", "mylist-L1 2", "mylist-L2 2">>

\* CounterSerializer.css_counter_resets
CounterSerializer_css_counter_resets(counter) ==
    Join(SelectSeq(SortedCounterNames, LAMBDA n : n \in counter.restart), " ")

\* CounterSerializer.css_counter: None for the style 'none'
css_counter(counter) ==
    IF counter.style # "none"
    THEN "counter(" \o counter.name \o ", " \o counter.style \o ")"
    ELSE None

\* CounterSerializer.css_counter_content, for a counter that is not a bullet
css_counter_content(counter) ==
    IF counter.style = "none" THEN None
    ELSE LET contents ==
                [i \in 1..Len(counter.text) |->
                    IF counter.text[i].ref
                    THEN css_counter(CHOOSE c \in
                            {counter.counter_list[j] : j \in 1..Len(counter.counter_list)} :
                                c.name = counter.text[i].s)
                    ELSE "\"" \o counter.text[i].s \o "\""] \o
                (IF counter.suffix = "space" THEN <<"\"\\005C 00A0\"">> ELSE << >>)
         IN  Join(SelectSeq(contents, LAMBDA x : x # None), " ")

\* a plausible slip: the counter's margin is preferred to the paragraph's own
handle_margin_left_counter_first(rs, s, counter, before_selector, selector) ==
    LET paragraph_margin_left == FirstNotNone(counter.margin_left, s.margin_left)
    IN  IF paragraph_margin_left # << >>
        THEN SetCss(rs, selector, "margin-left", FormatInches(paragraph_margin_left[1]))
        ELSE rs

\* CounterSerializer.handle_margin_left
handle_margin_left(rs, s, counter, before_selector, selector) ==
    LET paragraph_margin_left == FirstNotNone(s.margin_left, counter.margin_left)
    IN  IF paragraph_margin_left # << >>
        THEN SetCss(rs, selector, "margin-left", FormatInches(paragraph_margin_left[1]))
        ELSE rs

\* a plausible slip: the hanging indent leaves the paragraph's rule alone
handle_text_indent_keep(rs, s, counter, before_selector, selector) ==
    LET text_indent == FirstNotNone(s.text_indent, counter.text_indent)
    IN  IF text_indent = << >> THEN rs
        ELSE SetCss(SetCss(SetCss(rs, before_selector, "text-indent",
                                  FormatInches(text_indent[1])),
                           before_selector, "margin-left", ""),
                    before_selector, "display", "inline-block")

\* CounterSerializer.handle_text_indent
handle_text_indent(rs, s, counter, before_selector, selector) ==
    LET text_indent == FirstNotNone(s.text_indent, counter.text_indent)
    IN  IF text_indent = << >> THEN rs
        ELSE LET inches == FormatInches(text_indent[1])
                 rs1 == SetCss(rs, before_selector, "text-indent", inches)
                 rs2 == SetCss(rs1, before_selector, "margin-left", "")
             IN  IF text_indent[1] < 0
                 THEN (IF counter.suffix = "tab"
                       THEN SetCss(SetCss(rs2, selector, "text-indent", ""),
                                   before_selector, "display", "inline-block")
                       ELSE SetCss(SetCss(rs2, selector, "text-indent", inches),
                                   before_selector, "text-indent", ""))
                 ELSE (IF counter.suffix = "tab"
                       THEN SetCss(SetCss(SetCss(rs2, selector, "text-indent", ""),
                                          before_selector, "margin-right", inches),
                                   before_selector, "display", "inline-block")
                       ELSE SetCss(SetCss(rs2, selector, "text-indent", ""),
                                   before_selector, "display", "inline-block"))

\* CounterSerializer.serialize_properties: every property but the counter
CounterSerializer_serialize_properties(rs, ss, s, selector, properties) ==
    SerializeEach(rs, ss, s, selector,
                  SelectSeq(properties, LAMBDA p : p.prop # "counter"))

\* CounterSerializer.set_css_style_before
set_css_style_before(rs, ss, s, counter, before_selector) ==
    LET text_fields == text_properties(counter)
        paragraph_fields == paragraph_properties(s, FALSE)
        rs1 == CounterSerializer_serialize_properties(rs, ss, s, before_selector,
                                                      text_fields)
        rs2 == CounterSerializer_serialize_properties(rs1, ss, s, before_selector,
                                                      paragraph_fields)
        rs3 == SetCss(rs2, before_selector, "content", css_counter_content(counter))
        rs4 == SetCss(rs3, before_selector, "counter-increment", counter.name)
    IN  SetCss(rs4, before_selector, "text-align", counter.justification)

\* a plausible slip: the indent is left as the paragraph's serializer wrote it
CounterSerializer_set_css_style_no_indent(rs, ss, s, selector, counter) ==
    LET before_selector == css_current_selector(s) \o ":before"
        rs1 == get_or_create_rule(rs, before_selector)
        rs2 == set_css_style_before(rs1, ss, s, counter, before_selector)
        rs3 == handle_margin_left(rs2, s, counter, before_selector, selector)
    IN  SetCss(rs3, selector, "counter-reset",
               CounterSerializer_css_counter_resets(counter))

\* CounterSerializer.set_css_style, style_rule being the block keyed by selector
CounterSerializer_set_css_style(rs, ss, s, selector, counter) ==
    LET before_selector == css_current_selector(s) \o ":before"
        rs1 == get_or_create_rule(rs, before_selector)
        rs2 == set_css_style_before(rs1, ss, s, counter, before_selector)
        rs3 == handle_margin_left(rs2, s, counter, before_selector, selector)
        rs4 == handle_text_indent(rs3, s, counter, before_selector, selector)
    IN  SetCss(rs4, selector, "counter-reset",
               CounterSerializer_css_counter_resets(counter))

\* CssParagraphSerializer._serialize, as the sequence of its steps: the two
\* rules are created, the properties other than the counter are serialized
\* in the order of their names, the counter last
CssParagraphSerializer_serialize(ss, s) ==
    LET properties == paragraph_properties(s, TRUE)
        selector == css_selector(ss, s, "")
        others == SelectSeq(properties, LAMBDA p : p.prop # "counter")
        counters == SelectSeq(properties, LAMBDA p : p.prop = "counter")
    IN  <<[kind |-> "begin", selector |-> selector, prop |-> "", value |-> << >>]>> \o
        [i \in 1..Len(others) |->
            [kind |-> "property", selector |-> selector,
             prop |-> others[i].prop, value |-> others[i].value]] \o
        [i \in 1..Len(counters) |->
            [kind |-> "counter", selector |-> selector,
             prop |-> counters[i].prop, value |-> counters[i].value]]

(***************************************************************************)
(* SpecParagraph: CssParagraphSerializer._serialize of one paragraph       *)
(* style, step by step.                                                    *)
(***************************************************************************)
\* text_indent values: None, -0.44in (hanging), 0.25in (first line) and 0
Indents == {<< >>, <<-402336>>, <<228600>>, <<0>>}

\* margin_left values: None and 0.5in
Margins == {<< >>, <<457200>>}

\* margin_left values of a counter: None and 1in
CounterMargins == {<< >>, <<914400>>}

ParagraphCounters ==
    { [name |-> "mylist-L0", style |-> st,
       text |-> <<[ref |-> TRUE, s |-> "mylist-L0"], [ref |-> FALSE, s |-> "."]>>,
       restart |-> rst, suffix |-> sf, justification |-> "start",
       bold |-> b, margin_left |-> ml, text_indent |-> ti,
       counter_list |-> <<[name |-> "mylist-L0", style |-> st]>>] :
        st \in {"decimal", "none"},
        rst \in {{}, {"mylist-L1", "mylist-L2 2"}},
        sf \in {"tab", "space", "nothing"},
        b \in {<< >>, <<TRUE>>}, ml \in CounterMargins, ti \in Indents }

ParagraphStyles ==
    { [type |-> "p", id |-> ident.id, name |-> ident.name, parent_id |-> None,
       children |-> << >>, bold |-> b, margin_left |-> ml, text_indent |-> ti,
       counter |-> c] :
        ident \in {[id |-> "n", name |-> <<"n">>],
                   [id |-> "Heading1",
                    name |-> <<"h", "e", "a", "d", "i", "n", "g", " ", "1">>]},
        b \in {<< >>, <<FALSE>>}, ml \in Margins, ti \in Indents,
        c \in {<< >>} \cup {<<k>> : k \in ParagraphCounters} }

InitParagraph ==
    /\ style \in ParagraphStyles
    /\ stylesheet = <<style>>
    /\ rules = << >>
    /\ applied = << >>
    /\ numbering = NoNumbering
    /\ pc = "paragraph"
    /\ serializer = NoSerializer
    /\ result = NoResult

\* the step _serialize is at
ParagraphStep == CssParagraphSerializer_serialize(stylesheet, style)[Len(applied) + 1]

ParagraphStepEnabled ==
    /\ pc = "paragraph"
    /\ Len(applied) < Len(CssParagraphSerializer_serialize(stylesheet, style))

\* the rule of `selector:before` and the rule of css_selector() are created
BeginParagraph ==
    /\ ParagraphStepEnabled
    /\ ParagraphStep.kind = "begin"
    /\ rules' = get_or_create_rule(
                    get_or_create_rule(rules, css_current_selector(style) \o ":before"),
                    ParagraphStep.selector)
    /\ applied' = Append(applied, ParagraphStep)
    /\ UNCHANGED <<style, numbering, stylesheet, pc, serializer, result>>

\* the serializer of a property other than the counter writes to the rule
SerializeParagraphProperty ==
    /\ ParagraphStepEnabled
    /\ ParagraphStep.kind = "property"
    /\ rules' = PropertySerializer_set_css_style(rules, stylesheet, style,
                    ParagraphStep.selector, ParagraphStep.prop, ParagraphStep.value)
    /\ applied' = Append(applied, ParagraphStep)
    /\ UNCHANGED <<style, numbering, stylesheet, pc, serializer, result>>

\* the counter is serialized last
SerializeCounter ==
    /\ ParagraphStepEnabled
    /\ ParagraphStep.kind = "counter"
    /\ rules' = CounterSerializer_set_css_style(rules, stylesheet, style,
                    ParagraphStep.selector, ParagraphStep.value)
    /\ applied' = Append(applied, ParagraphStep)
    /\ UNCHANGED <<style, numbering, stylesheet, pc, serializer, result>>

NextParagraph == BeginParagraph \/ SerializeParagraphProperty \/ SerializeCounter

SpecParagraph == InitParagraph /\ [][NextParagraph]_vars

\* _serialize has returned
ParagraphDone ==
    /\ pc = "paragraph"
    /\ Len(applied) = Len(CssParagraphSerializer_serialize(stylesheet, style))

\* the paragraph carries a counter with the suffix whose resolved text-indent
\* (the paragraph's own, else the counter's) is negative
HangingCounter(suffix) ==
    /\ style.counter # << >>
    /\ style.counter[1].suffix = suffix
    /\ FirstNotNone(style.text_indent, style.counter[1].text_indent) # << >>
    /\ FirstNotNone(style.text_indent, style.counter[1].text_indent)[1] < 0

\* C8: for a paragraph style carrying a counter whose suffix is `tab` and
\* whose resolved text-indent is negative, the paragraph's own rule ends with
\* no text-indent declaration, even when the paragraph style itself set
\* text_indent, and the `:before` rule has display: inline-block.
C8_HangingTab ==
    (ParagraphDone /\ HangingCounter("tab")) =>
        /\ ~HasProperty(RuleOf(rules, css_selector(stylesheet, style, "")),
                        "text-indent")
        /\ getPropertyValue(RuleOf(rules, css_current_selector(style) \o ":before"),
                            "display") = "inline-block"

\* C8 witness: the paragraph style p.n itself sets text_indent = -0.44in and
\* carries a tab counter; after _serialize its rule has a counter-reset but
\* no text-indent, and p.n:before has the indent and display: inline-block
C8_Witness ==
    /\ ParagraphDone
    /\ HangingCounter("tab")
    /\ style.id = "n"
    /\ style.text_indent = <<-402336>>
    /\ "text_indent" \in AppliedProps
    /\ HasRule(rules, "p.n")
    /\ ~HasProperty(RuleOf(rules, "p.n"), "text-indent")
    /\ getPropertyValue(RuleOf(rules, "p.n"), "counter-reset") =
            "mylist-L1 mylist-L2 2"
    /\ getPropertyValue(RuleOf(rules, "p.n:before"), "text-indent") = "-0.44in"
    /\ getPropertyValue(RuleOf(rules, "p.n:before"), "display") = "inline-block"

(***************************************************************************)
(* SpecSelector: the selectors of the styles of a style forest.  A         *)
(* stylesheet holds the styles of one kind, in document order; the parent  *)
(* of a style, when it has one, comes before it, and the children of a     *)
(* style are the styles whose parent_id is its id, in document order.      *)
(***************************************************************************)
MaxStyles == 4

ParagraphPool ==
    << [id |-> "", name |-> <<"N", "o", "r", "m", "a", "l">>],
       [id |-> "a", name |-> <<"a">>],
       [id |-> "Heading1", name |-> <<"h", "e", "a", "d", "i", "n", "g", " ", "1">>],
       [id |-> "Heading2", name |-> <<"h", "e", "a", "d", "i", "n", "g", " ", "2">>],
       [id |-> "Heading3", name |-> <<"h", "e", "a", "d", "i", "n", "g", " ", "3">>],
       [id |-> "b", name |-> <<"b">>] >>

SpanPool ==
    << [id |-> "a", name |-> <<"a">>], [id |-> "b", name |-> <<"b">>],
       [id |-> "c", name |-> <<"c">>], [id |-> "", name |-> <<"d">>] >>

TablePool ==
    << [id |-> "", name |-> <<"N", "o", "r", "m", "a", "l">>],
       [id |-> "t", name |-> <<"t">>], [id |-> "c", name |-> <<"c">>] >>

PoolIndexes(pool) == [i \in 1..Len(pool) |-> i]

\* the parent of each style of S: 0 for none, else a style before it
ParentMaps(S) == {par \in [S -> S \cup {0}] : \A i \in S : par[i] < i}

\* the ids of the styles whose parent is the style i, in document order
ChildrenOf(pool, S, par, i) ==
    LET js == SelectSeq(PoolIndexes(pool), LAMBDA j : j \in S /\ par[j] = i)
    IN  [k \in 1..Len(js) |-> pool[js[k]].id]

\* the stylesheet of the styles S of the pool with the parents par
Forest(type, pool, S, par) ==
    LET is == SelectSeq(PoolIndexes(pool), LAMBDA i : i \in S)
    IN  [k \in 1..Len(is) |->
            [type |-> type, id |-> pool[is[k]].id, name |-> pool[is[k]].name,
             parent_id |-> IF par[is[k]] = 0 THEN None ELSE pool[par[is[k]]].id,
             children |-> ChildrenOf(pool, S, par, is[k])]]

Forests(type, pool) ==
    UNION {{Forest(type, pool, S, par) : par \in ParentMaps(S)} :
            S \in {T \in SUBSET (1..Len(pool)) :
                        T # {} /\ Cardinality(T) <= MaxStyles}}

\* the body style (api.BodyStyle)
BodyStyle == [type |-> "body", id |-> "", name |-> << >>, parent_id |-> None,
              children |-> << >>]

InitSelector ==
    /\ stylesheet \in Forests("p", ParagraphPool) \cup Forests("span", SpanPool)
                      \cup Forests("table", TablePool) \cup {<<BodyStyle>>}
    /\ style = NoStyle
    /\ rules = << >>
    /\ applied = << >>
    /\ numbering = NoNumbering
    /\ pc = "selector"
    /\ serializer = NoSerializer
    /\ result = NoResult

\* css_selector() and css_current_selector() of the block serializer of a style
CssSelector ==
    /\ pc = "selector"
    /\ \E i \in 1..Len(stylesheet) :
        /\ style' = stylesheet[i]
        /\ applied' = <<[suffix |-> "",
                         selector |-> css_selector(stylesheet, stylesheet[i], ""),
                         current |-> css_current_selector(stylesheet[i])]>>
    /\ UNCHANGED <<rules, numbering, stylesheet, pc, serializer, result>>

\* default_cell_css_selector() of the block serializer of a table style
DefaultCellCssSelector ==
    /\ pc = "selector"
    /\ \E i \in 1..Len(stylesheet) :
        /\ stylesheet[i].type = "table"
        /\ style' = stylesheet[i]
        /\ applied' = <<[suffix |-> "td",
                         selector |-> css_selector(stylesheet, stylesheet[i], "td"),
                         current |-> css_current_selector(stylesheet[i])]>>
    /\ UNCHANGED <<rules, numbering, stylesheet, pc, serializer, result>>

NextSelector == CssSelector \/ DefaultCellCssSelector

SpecSelector == InitSelector /\ [][NextSelector]_vars

\* css_selector() of `style` has been computed
SelectorComputed ==
    /\ pc = "selector"
    /\ applied # << >>
    /\ applied[1].suffix = ""

\* C9: for any style of any kind (span, paragraph, table, body) that has
\* zero children, css_selector() returns exactly the same string as
\* css_current_selector(), with nothing appended.
C9_ChildlessSelector ==
    (SelectorComputed /\ style.children = << >>) =>
        applied[1].selector = applied[1].current

\* the children of the root paragraph style whose name, stripped of its
\* whitespace, starts with heading1..heading6
HeadingChildren ==
    SelectSeq(ChildStyles(stylesheet, style),
              LAMBDA c : MatchHeading(StripWhitespace(c.name)))

\* C10: the union selector of the root paragraph style (id '') consists of
\* `p` followed by the selectors of its heading-renamed children only, in
\* the order of its children; the selector of a child of the root whose own
\* prefix is `p` is no member of the union.
C10_RootUnion ==
    (SelectorComputed /\ style.type = "p" /\ style.id = "") =>
        /\ applied[1].selector =
                Join(<<"p">> \o [i \in 1..Len(HeadingChildren) |->
                        css_selector(stylesheet, HeadingChildren[i], "")], ", ")
        /\ \A i \in 1..Len(style.children) :
                LET members == css_selector_names(stylesheet, style, "")
                IN  \A m \in 1..Len(members) :
                        members[m] # "p." \o style.children[i]

\* C10 witness: the root has the children p.a, heading 1 and heading 2 and
\* its selector is `p, h1, h2`
C10_Witness ==
    /\ SelectorComputed
    /\ style.type = "p"
    /\ style.id = ""
    /\ style.children = <<"a", "Heading1", "Heading2">>
    /\ applied[1].selector = "p, h1, h2"

\* the selector the own-selector rule gives the style s: h1..h6 for a
\* paragraph style named heading1..heading6, the bare prefix of its kind for
\* the id '', else prefix.id
OwnSelectorRule(s) ==
    LET class_name == StripWhitespace(s.name)
    IN  IF s.type = "p" /\ MatchHeading(class_name)
        THEN "h" \o class_name[Len(Chars_heading) + 1]
        ELSE IF s.id = "" THEN s.type
        ELSE s.type \o "." \o s.id

\* C11: a style's own selector is prefix.id, except that a style with id ''
\* gets the bare prefix with no `.` and no class, and a paragraph style whose
\* whitespace-stripped name matches heading[1-6] gets h1..h6 with no class.
C11_OwnSelector ==
    (pc = "selector" /\ applied # << >>) =>
        applied[1].current = OwnSelectorRule(style)

(***************************************************************************)
(* The declarations under a paragraph style's own selector.                *)
(***************************************************************************)
\* the rule of the style's own selector
OwnRule == RuleOf(rules, css_selector(stylesheet, style, ""))

\* the CSS properties of the formatting properties set on the style itself
SetNames ==
    (IF style.bold # << >> THEN {"font-weight"} ELSE {}) \cup
    (IF style.margin_left # << >> THEN {"margin-left"} ELSE {}) \cup
    (IF style.text_indent # << >> THEN {"text-indent"} ELSE {}) \cup
    (IF style.counter # << >> THEN {"counter-reset"} ELSE {})

\* the CSS properties the style leaves unset and its counter sets
CounterFallbackNames ==
    IF style.counter = << >> THEN {}
    ELSE (IF style.margin_left = << >> /\ style.counter[1].margin_left # << >>
          THEN {"margin-left"} ELSE {}) \cup
         (IF style.text_indent = << >> /\ style.counter[1].text_indent # << >>
          THEN {"text-indent"} ELSE {})

\* a property of the style is None, its counter sets it, and the style's own
\* rule declares it
CounterFallbackCase ==
    /\ ParagraphDone
    /\ style.counter # << >>
    /\ style.margin_left = << >>
    /\ style.counter[1].margin_left # << >>
    /\ HasProperty(OwnRule, "margin-left")

Chars_Normal == <<"N", "o", "r", "m", "a", "l">>

\* the <w:style w:type="paragraph"> elements of the document: styleId, name,
\* basedOn and the bold property
DocxParagraphStyles ==
    { [id |-> "Normal", name |-> Chars_Normal, parent_id |-> None, bold |-> << >>],
      [id |-> "Heading1", name |-> <<"h", "e", "a", "d", "i", "n", "g", " ", "1">>,
       parent_id |-> "Normal", bold |-> <<TRUE>>],
      [id |-> "a", name |-> <<"A">>, parent_id |-> None, bold |-> <<TRUE>>],
      [id |-> "b", name |-> <<"B">>, parent_id |-> "a", bold |-> <<FALSE>>],
      [id |-> "c", name |-> <<"C">>, parent_id |-> "b", bold |-> << >>] }

\* the characters of a style id
Chars(id) ==
    CASE id = "" -> << >>
      [] id = "Heading1" -> <<"H", "e", "a", "d", "i", "n", "g", "1">>
      [] OTHER -> <<id>>

\* DocxParser.normalize_paragraph_id
normalize_paragraph_id(paragraph_id) ==
    IF paragraph_id = "Normal" THEN "" ELSE paragraph_id

\* DocxParser.normalize_paragraph_id, of a name
normalize_paragraph_name(name) ==
    IF name = Chars_Normal THEN << >> ELSE name

\* dict[key] = value: the value of an existing key is replaced in place
PutStyle(ss, s) ==
    IF HasStyle(ss, s.type, s.id)
    THEN [i \in 1..Len(ss) |->
            IF ss[i].type = s.type /\ ss[i].id = s.id THEN s ELSE ss[i]]
    ELSE Append(ss, s)

\* Stylesheet.add_style: the style is stored under its id; when its
\* parent_id names a style of the stylesheet, the parent link is set and the
\* style is appended to the children of the parent
add_style(ss, s) ==
    IF s.parent_id # None /\ HasStyle(ss, s.type, s.parent_id)
    THEN LET parent == StyleOf(ss, s.type, s.parent_id)
             ss1 == PutStyle(ss, [s EXCEPT !.parent = s.parent_id])
         IN  PutStyle(ss1, [parent EXCEPT !.children = Append(@, s.id)])
    ELSE PutStyle(ss, s)

\* api.ParagraphStyle(name=..., id=..., parent_id=...)
ParagraphStyle(style_id, style_name, parent_id) ==
    [type |-> "p", id |-> style_id, name |-> style_name, parent_id |-> parent_id,
     parent |-> None, children |-> << >>, bold |-> << >>]

\* the first part of get_or_create_paragraph_style: the style of the id,
\* with the name, id and parent_id assigned, or a new one
paragraph_style_for(ss, style_id, style_name, parent_id) ==
    IF HasStyle(ss, "p", style_id)
    THEN [StyleOf(ss, "p", style_id) EXCEPT
            !.name = style_name, !.id = style_id, !.parent_id = parent_id]
    ELSE ParagraphStyle(style_id, style_name, parent_id)

\* DocxParser.get_or_create_paragraph_style; the recursive call creates the
\* parent with no parent of its own and so does not recurse further
get_or_create_paragraph_style(ss, style_id, style_name, parent_id) ==
    LET s == paragraph_style_for(ss, style_id, style_name, parent_id)
        ss1 == IF Truthy(parent_id) /\ ~HasStyle(ss, "p", parent_id)
               THEN add_style(ss, paragraph_style_for(ss, parent_id,
                                                      Chars(parent_id), None))
               ELSE ss
    IN  add_style(ss1, s)

\* DocxParser.parse_docx_paragraph_style: the style is created or updated,
\* linked, and its properties are parsed from the element
parse_docx_paragraph_style(ss, docx_style) ==
    LET style_id == normalize_paragraph_id(docx_style.id)
        ss1 == get_or_create_paragraph_style(ss, style_id,
                    normalize_paragraph_name(docx_style.name),
                    normalize_paragraph_id(docx_style.parent_id))
    IN  PutStyle(ss1, [StyleOf(ss1, "p", style_id) EXCEPT !.bold = docx_style.bold])

InitParse ==
    /\ stylesheet = << >>
    /\ style = NoStyle
    /\ rules = << >>
    /\ applied = << >>
    /\ numbering = NoNumbering
    /\ pc = "parse"
    /\ serializer = NoSerializer
    /\ result = NoResult

\* the next paragraph style of the document is parsed; `applied` lists the
\* elements parsed so far
ParseDocxParagraphStyle ==
    /\ pc = "parse"
    /\ \E docx_style \in DocxParagraphStyles :
        /\ \A i \in 1..Len(applied) : applied[i] # docx_style
        /\ stylesheet' = parse_docx_paragraph_style(stylesheet, docx_style)
        /\ style' = StyleOf(stylesheet', "p", normalize_paragraph_id(docx_style.id))
        /\ applied' = Append(applied, docx_style)
    /\ UNCHANGED <<rules, numbering, pc, serializer, result>>

NextParse == ParseDocxParagraphStyle

SpecParse == InitParse /\ [][NextParse]_vars

\* the number of times the id occurs in the children
Occurrences(children, id) == Len(SelectSeq(children, LAMBDA c : c = id))

\* the element the style of the id was parsed from has been parsed
IsParsed(id) ==
    \E i \in 1..Len(applied) : normalize_paragraph_id(applied[i].id) = id

\* the style of the id holds what its element defines
FullyDefined(id) ==
    \A i \in 1..Len(applied) :
        normalize_paragraph_id(applied[i].id) = id =>
            LET s == StyleOf(stylesheet, "p", id)
            IN  /\ s.name = normalize_paragraph_name(applied[i].name)
                /\ s.parent_id = normalize_paragraph_id(applied[i].parent_id)
                /\ s.bold = applied[i].bold

\* the parsed element d is linked to its parent: the parent is in the
\* stylesheet, the child's parent link refers to it, the child occurs
\* exactly once in its children, and once the parent's own element is parsed
\* the parent holds its definition
LinkedToParent(d) ==
    LET id == normalize_paragraph_id(d.id)
        parent_id == normalize_paragraph_id(d.parent_id)
    IN  /\ HasStyle(stylesheet, "p", parent_id)
        /\ StyleOf(stylesheet, "p", id).parent = parent_id
        /\ Occurrences(StyleOf(stylesheet, "p", parent_id).children, id) = 1
        /\ IsParsed(parent_id) => FullyDefined(parent_id)

\* C14: whatever order the styles are parsed in, a paragraph style whose
\* parent_id names a style not yet in the stylesheet is linked at once to a
\* placeholder parent, and when the parent's real definition is parsed later
\* it overwrites the placeholder in place: the child's parent is the fully
\* defined parent and the child appears exactly once in its children.
C14_PlaceholderParent ==
    pc = "parse" =>
        \A i \in 1..Len(applied) :
            applied[i].parent_id # None => LinkedToParent(applied[i])

(***************************************************************************)
(* SpecStylesheet: CssStylesheetSerializer.serialize() of a whole          *)
(* stylesheet, one block serializer at a time.  The stylesheet is the      *)
(* sequence of its page style, its body style and its span, paragraph and  *)
(* table styles in the order the document lists them; the three            *)
(* dictionaries of the Stylesheet are the styles of each kind in that      *)
(* order.  `rules` is the CSSStyleSheet being filled, `applied` lists the  *)
(* styles whose block serializer has run.                                  *)
(***************************************************************************)
MaxDocStyles == 3

ValueError == "ValueError"

\* the property names FACTORY registers a serializer for
FACTORY ==
    {"bold", "counter", "margin_left", "text_indent", "border_top", "col_band_size",
     "row_band_size", "default_cell", "default_row", "odd_columns", "even_columns",
     "odd_rows", "even_rows", "valign", "split"}

\* a plausible slip: a property without a serializer is passed over
get_property_serializer_lenient(property_serializers, prop_name) ==
    prop_name

\* CssSerializerFactory.get_property_serializer: the creator registered for
\* the name, or the ValueError raised when there is none
get_property_serializer(property_serializers, prop_name) ==
    IF prop_name \notin property_serializers THEN ValueError ELSE prop_name

\* the counters of the numbering definition `my list`: level 0 restarts
\* level 1, which starts at 3
Counter0 ==
    [name |-> "mylist-L0", style |-> "decimal", start |-> 1,
     text |-> <<[ref |-> TRUE, s |-> "mylist-L0"], [ref |-> FALSE, s |-> "."]>>,
     restart |-> {"mylist-L1 2"}, suffix |-> "tab", justification |-> "start",
     bold |-> << >>, margin_left |-> << >>, text_indent |-> << >>,
     counter_list |-> <<[name |-> "mylist-L0", style |-> "decimal"],
                        [name |-> "mylist-L1", style |-> "decimal"]>>]

Counter1 ==
    [Counter0 EXCEPT !.name = "mylist-L1", !.start = 3, !.restart = {},
        !.text = <<[ref |-> TRUE, s |-> "mylist-L1"], [ref |-> FALSE, s |-> ")"]>>]

\* api.Counter(restart=root_counters, text='')
BodyCounter(root_counters) ==
    [name |-> None, style |-> "decimal", start |-> 0, text |-> << >>,
     restart |-> root_counters, suffix |-> "tab", justification |-> None,
     bold |-> << >>, margin_left |-> << >>, text_indent |-> << >>,
     counter_list |-> << >>]

\* the page style of a Letter page with one inch margins
PageStyle ==
    [type |-> "page", id |-> "", name |-> << >>, parent_id |-> None, children |-> << >>,
     margin_left |-> <<914400>>, margin_right |-> <<914400>>,
     margin_top |-> <<914400>>, margin_bottom |-> <<914400>>,
     page_width |-> <<7772400>>, page_height |-> <<10058400>>]

\* the body styles: the document defaults set bold or leave it None
BodyStyles ==
    { [type |-> "body", id |-> "", name |-> << >>, parent_id |-> None,
       children |-> << >>, bold |-> b, margin_left |-> << >>, text_indent |-> << >>,
       counter |-> << >>] : b \in {<< >>, <<FALSE>>} }

\* the styles a document may list: a character style, two paragraph styles
\* with or without a counter, a table style
DocStyles ==
    { [type |-> "span", id |-> "s", name |-> <<"s">>, parent_id |-> None,
       children |-> << >>, bold |-> <<TRUE>>] } \cup
    { [type |-> "p", id |-> "n", name |-> <<"n">>, parent_id |-> None,
       children |-> << >>, bold |-> << >>, margin_left |-> <<457200>>,
       text_indent |-> << >>, counter |-> c] : c \in {<< >>, <<Counter0>>} } \cup
    { [type |-> "p", id |-> "m", name |-> <<"m">>, parent_id |-> None,
       children |-> << >>, bold |-> <<TRUE>>, margin_left |-> << >>,
       text_indent |-> << >>, counter |-> c] : c \in {<< >>, <<Counter1>>} } \cup
    { [type |-> "table", id |-> "t", name |-> <<"t">>, parent_id |-> None,
       children |-> << >>, border_top |-> << >>, bold |-> << >>,
       default_cell |-> << >>, default_row |-> <<[split |-> <<TRUE>>]>>,
       col_band_size |-> << >>, row_band_size |-> << >>, odd_columns |-> << >>,
       even_columns |-> << >>, odd_rows |-> << >>, even_rows |-> << >>] }

\* the lists of up to MaxDocStyles styles with different selectors
DocStyleLists ==
    UNION { {l \in [1..n -> DocStyles] :
                \A i, j \in 1..n :
                    i # j => <<l[i].type, l[i].id>> # <<l[j].type, l[j].id>>} :
            n \in 1..MaxDocStyles }

\* the serializers: the class attributes as the caller sets them, the two
\* options of the configuration surface as the caller sets them, and the
\* registry of the factory: FACTORY or a factory with no serializer for bold
Serializers ==
    [include_media_rules : BOOLEAN, initialize_counters_in_body : BOOLEAN,
     include_page_rule : BOOLEAN, simulate_printed_page : BOOLEAN,
     property_serializers : {FACTORY, FACTORY \ {"bold"}}]

\* stylesheet.body_style
body_style(ss) == StyleOf(ss, "body", "")

\* stylesheet.span_styles.values(), paragraph_styles.values(), table_styles.values()
styles_of(ss, type) == SelectSeq(ss, LAMBDA s : s.type = type)

RECURSIVE CountersOf(_)
\* the accumulation of css_root_counters over the paragraph styles:
\* [all_counters, restarted_counters]
CountersOf(paragraph_styles) ==
    IF Len(paragraph_styles) = 0
    THEN [all_counters |-> {}, restarted_counters |-> {}]
    ELSE LET acc == CountersOf(SubSeq(paragraph_styles, 1, Len(paragraph_styles) - 1))
             s == paragraph_styles[Len(paragraph_styles)]
         IN  IF s.counter # << >>
             THEN LET counter == s.counter[1]
                      root_counter_name ==
                        IF counter.start # 1
                        THEN counter.name \o " " \o ToString(counter.start - 1)
                        ELSE counter.name
                  IN  [all_counters |-> acc.all_counters \cup {root_counter_name},
                       restarted_counters |->
                            acc.restarted_counters \cup counter.restart]
             ELSE acc

\* a plausible slip: the restarted counters are never taken out
css_root_counters_all(ss, ser) ==
    CountersOf(styles_of(ss, "p")).all_counters

\* CssStylesheetSerializer.css_root_counters
css_root_counters(ss, ser) ==
    LET acc == CountersOf(styles_of(ss, "p"))
    IN  IF ser.initialize_counters_in_body
        THEN acc.all_counters
        ELSE acc.all_counters \ acc.restarted_counters

\* CssPageSerializer._css_margin_value
css_margin_value(page) ==
    Join(<<FormatRepr(page.margin_top[1], 914400) \o "in",
           FormatRepr(page.margin_right[1], 914400) \o "in",
           FormatRepr(page.margin_bottom[1], 914400) \o "in",
           FormatRepr(page.margin_left[1], 914400) \o "in">>, " ")

\* CssPageSerializer.css_style_rules: the @page rule and the @media screen
\* rule, whose style here is the style of the body rule it holds
CssPageSerializer_css_style_rules(page) ==
    << [selector |-> "@page",
        style |-> <<[name |-> "size",
                     value |-> FormatRepr(page.page_width[1], 914400) \o "in " \o
                               FormatRepr(page.page_height[1], 914400) \o "in"],
                    [name |-> "margin", value |-> css_margin_value(page)]>>],
       [selector |-> "@media screen",
        style |-> <<[name |-> "max-width",
                     value |-> FormatRepr(page.page_width[1] - page.margin_left[1]
                                            - page.margin_right[1], 914400) \o "in"],
                    [name |-> "margin", value |-> "1em auto"],
                    [name |-> "padding", value |-> css_margin_value(page)]>>] >>

\* _serialize of the block serializer of the style, as the sequence of its steps
BlockWork(ss, s) ==
    CASE s.type = "p"     -> CssParagraphSerializer_serialize(ss, s)
      [] s.type = "table" -> CssTableSerializer_serialize(ss, s)
      [] s.type = "span"  -> WorkOf(css_selector(ss, s, ""), text_properties(s))
      [] s.type = "body"  -> WorkOf(css_selector(ss, s, ""),
                                    paragraph_properties(s, TRUE))

\* the property names a step asks the factory a serializer for, in order:
\* the property itself and, for a counter, the text properties of the
\* counter and the paragraph properties of the style
StepNames(s, step) ==
    IF step.kind = "begin" THEN << >>
    ELSE IF step.prop = "counter"
    THEN LET inner == text_properties(step.value) \o
                      SelectSeq(paragraph_properties(s, FALSE),
                                LAMBDA q : q.prop # "counter")
         IN  <<step.prop>> \o [i \in 1..Len(inner) |-> inner[i].prop]
    ELSE <<step.prop>>

\* one step of _serialize
ApplyStep(rs, ss, s, step) ==
    CASE step.kind = "begin" /\ s.type = "p" ->
            get_or_create_rule(
                get_or_create_rule(rs, css_current_selector(s) \o ":before"),
                step.selector)
      [] step.kind = "begin" /\ s.type # "p" -> get_or_create_rule(rs, step.selector)
      [] step.kind # "begin" /\ step.prop = "counter" ->
            CounterSerializer_set_css_style(rs, ss, s, step.selector, step.value)
      [] step.kind # "begin" /\ step.prop # "counter" ->
            PropertySerializer_set_css_style(rs, ss, s, step.selector, step.prop,
                                             step.value)

RECURSIVE ApplyWork(_, _, _, _)
ApplyWork(rs, ss, s, work) ==
    IF Len(work) = 0 THEN rs
    ELSE ApplyWork(ApplyStep(rs, ss, s, Head(work)), ss, s, Tail(work))

\* CssBlockSerializer.css_style_rules: the ValueError of the first property
\* without a serializer, or the rules of the block in the order of their
\* creation
css_style_rules(ss, s, property_serializers) ==
    LET work == BlockWork(ss, s)
        names == Flatten([i \in 1..Len(work) |-> StepNames(s, work[i])])
        errors == SelectSeq(names,
                    LAMBDA n : get_property_serializer(property_serializers, n)
                                    = ValueError)
    IN  IF Len(errors) > 0
        THEN [raised |-> <<errors[1]>>, rules |-> << >>]
        ELSE [raised |-> << >>, rules |-> ApplyWork(<< >>, ss, s, work)]

\* the styles _serialize_css builds a block serializer for, in order
StylesheetWork(ss, ser) ==
    (IF ser.include_media_rules THEN styles_of(ss, "page") ELSE << >>) \o
    styles_of(ss, "body") \o styles_of(ss, "span") \o styles_of(ss, "p") \o
    styles_of(ss, "table")

InitStylesheet ==
    /\ \E body \in BodyStyles, l \in DocStyleLists :
            stylesheet = <<PageStyle, body>> \o l
    /\ serializer \in Serializers
    /\ style = NoStyle
    /\ rules = << >>
    /\ applied = << >>
    /\ numbering = NoNumbering
    /\ result = NoResult
    /\ pc = "stylesheet"

StylesheetStepEnabled ==
    /\ pc = "stylesheet"
    /\ Len(applied) < Len(StylesheetWork(stylesheet, serializer))

\* the style of the step _serialize_css is at
StylesheetStep == StylesheetWork(stylesheet, serializer)[Len(applied) + 1]

\* serialize_page_style
SerializePageStyle ==
    /\ StylesheetStepEnabled
    /\ StylesheetStep.type = "page"
    /\ rules' = rules \o CssPageSerializer_css_style_rules(StylesheetStep)
    /\ applied' = Append(applied, [type |-> "page", id |-> ""])
    /\ style' = StylesheetStep
    /\ UNCHANGED <<numbering, stylesheet, pc, serializer, result>>

\* the root counters are computed and assigned to the body style as its
\* counter, then the rules of the body style are added
SerializeBodyStyle ==
    /\ StylesheetStepEnabled
    /\ StylesheetStep.type = "body"
    /\ \E root_counters \in {css_root_counters(stylesheet, serializer)} :
       \E ss1 \in {IF root_counters # {}
                   THEN PutStyle(stylesheet,
                            [body_style(stylesheet) EXCEPT
                                !.counter = <<BodyCounter(root_counters)>>])
                   ELSE stylesheet} :
       \E body \in {body_style(ss1)} :
       \E out \in {css_style_rules(ss1, body, serializer.property_serializers)} :
           /\ stylesheet' = ss1
           /\ style' = body
           /\ applied' = Append(applied, [type |-> "body", id |-> ""])
           /\ IF out.raised # << >>
              THEN /\ result' = <<ValueError, out.raised[1]>>
                   /\ pc' = "done"
                   /\ rules' = rules
              ELSE /\ rules' = rules \o out.rules
                   /\ UNCHANGED <<pc, result>>
    /\ UNCHANGED <<numbering, serializer>>

\* the rules of the next span, paragraph or table style are added
SerializeStyle ==
    /\ StylesheetStepEnabled
    /\ StylesheetStep.type \in {"span", "p", "table"}
    /\ \E next_style \in {StylesheetStep} :
       \E out \in {css_style_rules(stylesheet, next_style,
                                   serializer.property_serializers)} :
           /\ style' = next_style
           /\ applied' = Append(applied, [type |-> next_style.type,
                                          id |-> next_style.id])
           /\ IF out.raised # << >>
              THEN /\ result' = <<ValueError, out.raised[1]>>
                   /\ pc' = "done"
                   /\ rules' = rules
              ELSE /\ rules' = rules \o out.rules
                   /\ UNCHANGED <<pc, result>>
    /\ UNCHANGED <<numbering, stylesheet, serializer>>

\* serialize() returns the text of the stylesheet
ReturnCssText ==
    /\ pc = "stylesheet"
    /\ Len(applied) = Len(StylesheetWork(stylesheet, serializer))
    /\ result' = <<"text", rules>>
    /\ pc' = "done"
    /\ UNCHANGED <<rules, applied, style, numbering, stylesheet, serializer>>

NextStylesheet ==
    SerializePageStyle \/ SerializeBodyStyle \/ SerializeStyle \/ ReturnCssText

SpecStylesheet == InitStylesheet /\ [][NextStylesheet]_vars

\* the fields every style has, which are no formatting properties
BaseFields == {"type", "id", "name", "parent_id", "children"}

\* the formatting properties set on the style whose name has no serializer
UnregisteredProperties(s) ==
    {f \in DOMAIN s \ BaseFields :
        s[f] # << >> /\ f \notin serializer.property_serializers}

\* some body, span, paragraph or table style of the stylesheet has a set
\* property whose name has no registered serializer
HasUnregistered ==
    \E i \in 1..Len(stylesheet) :
        /\ stylesheet[i].type # "page"
        /\ UnregisteredProperties(stylesheet[i]) # {}

\* C13: if any body, span, paragraph or table style of the stylesheet has a
\* set property whose name has no registered serializer, serialize() raises
\* the ValueError that names such a property and returns no CSS text; the
\* text is returned only when every block serializer has run.
C13_UnregisteredRaises ==
    pc = "done" =>
        /\ HasUnregistered =>
                /\ result[1] = ValueError
                /\ \E i \in 1..Len(stylesheet) :
                        /\ stylesheet[i].type # "page"
                        /\ result[2] \in UnregisteredProperties(stylesheet[i])
        /\ result[1] = "text" =>
                /\ ~HasUnregistered
                /\ Len(applied) = Len(StylesheetWork(stylesheet, serializer))

\* C13 witness: the factory has no serializer for bold; the rules of the
\* page and of the body are in the stylesheet when the paragraph style p.m,
\* which sets bold, raises the ValueError for bold
C13_Witness ==
    /\ pc = "done"
    /\ HasUnregistered
    /\ result = <<ValueError, "bold">>
    /\ style.type = "p"
    /\ style.id = "m"
    /\ Len(rules) > 2

\* serialize() has returned the text of the stylesheet
TextReturned == pc = "done" /\ result # NoResult /\ result[1] = "text"

\* the selectors of the rules, in order
SelectorsInOrder(rs) == [i \in 1..Len(rs) |-> rs[i].selector]

\* the span, paragraph and table styles in the order the document lists them
DocumentOrder == SelectSeq(stylesheet, LAMBDA s : s.type \in {"span", "p", "table"})

\* the selectors of the rule-sets of the styles, one style after the other
RuleSetSelectors(styles) ==
    Flatten([i \in 1..Len(styles) |->
        SelectorsInOrder(css_style_rules(stylesheet, styles[i],
                                         serializer.property_serializers).rules)])

\* the selectors of the rules before those of the styles
LeadingSelectors ==
    (IF serializer.include_media_rules THEN <<"@page", "@media screen">> ELSE << >>) \o
    RuleSetSelectors(<<body_style(stylesheet)>>)

\* C15: the serialized stylesheet lists its rules in this order: the @page
\* rule (when enabled), the @media screen block (when enabled), the body
\* rule, then one rule-set per style in the order in which the styles appear
\* in the document.
C15_DocumentOrder ==
    TextReturned =>
        SelectorsInOrder(result[2]) = LeadingSelectors \o RuleSetSelectors(DocumentOrder)

\* C16: the @page rule is emitted exactly when the include_page_rule option
\* is set and the @media screen block exactly when the simulate_printed_page
\* option is set, each option controlling its own rule.
C16_IndependentOptions ==
    TextReturned =>
        /\ (\E i \in 1..Len(result[2]) : result[2][i].selector = "@page")
                <=> serializer.include_page_rule
        /\ (\E i \in 1..Len(result[2]) : result[2][i].selector = "@media screen")
                <=> serializer.simulate_printed_page

\* css_root_counters() has been called: the block serializer of the body has run
RootCountersComputed ==
    /\ pc \in {"stylesheet", "done"}
    /\ \E i \in 1..Len(applied) : applied[i].type = "body"

\* what css_root_counters() returned: the restart set of the counter given
\* to the body style, empty when none was given
RootCounters ==
    IF body_style(stylesheet).counter = << >> THEN {}
    ELSE body_style(stylesheet).counter[1].restart

\* the counters attached to paragraph styles
AttachedCounters ==
    {stylesheet[i].counter[1] :
        i \in {j \in 1..Len(stylesheet) :
                stylesheet[j].type = "p" /\ stylesheet[j].counter # << >>}}

\* the counters of the numbering definition
NumberingCounters == {Counter0, Counter1}

\* the counter-reset entry of a counter: its name, followed by start - 1
\* when it does not start at 1
ResetEntry(c) ==
    IF c.start = 1 THEN c.name ELSE c.name \o " " \o ToString(c.start - 1)

\* C17 as stated: css_root_counters() returns the names of all counters
\* attached to paragraph styles when initialize_counters_in_body is true,
\* and when it is false exactly those of them that appear in no counter's
\* restart set.
C17_RootCounterNames ==
    RootCountersComputed =>
        RootCounters =
            IF serializer.initialize_counters_in_body
            THEN {c.name : c \in AttachedCounters}
            ELSE {c.name : c \in
                    {a \in AttachedCounters :
                        \A d \in NumberingCounters :
                            a.name \notin d.restart /\ ResetEntry(a) \notin d.restart}}

\* C17 amended: css_root_counters() returns the counter-reset entry (the
\* name, followed by start - 1 when the counter does not start at 1) of
\* every counter attached to a paragraph style when
\* initialize_counters_in_body is true, and when it is false exactly those
\* entries that are in the restart set of no counter attached to a
\* paragraph style.
C17_RootCounterEntries ==
    RootCountersComputed =>
        RootCounters =
            IF serializer.initialize_counters_in_body
            THEN {ResetEntry(c) : c \in AttachedCounters}
            ELSE {ResetEntry(c) : c \in
                    {a \in AttachedCounters :
                        \A d \in AttachedCounters : ResetEntry(a) \notin d.restart}}

\* C17 witness: both counters are attached and initialize_counters_in_body
\* is false: level 1, which level 0 restarts, is left out
C17_Witness ==
    /\ RootCountersComputed
    /\ ~serializer.initialize_counters_in_body
    /\ AttachedCounters = {Counter0, Counter1}
    /\ RootCounters = {"mylist-L0"}

\* C20: once CSS emission has started, no object of the style data model is
\* modified: every field of every style holds the same value after
\* serialize() returns as before it was called.
C20_StylesReadOnly ==
    [][pc = "stylesheet" => stylesheet' = stylesheet]_vars

\* C18: a property serializer's set_css_style writes only to the declaration
\* block passed to it: a step of the table pass that hands a property to its
\* serializer creates no rule, changes no rule other than the one keyed by
\* the selector it was handed, and changes no object of the style model.
C18_OnlyHandedBlock ==
    [][(pc = "table" /\ applied' # applied /\ TableStep.kind = "property") =>
        /\ Len(rules') = Len(rules)
        /\ \A i \in 1..Len(rules) :
                rules[i].selector # TableStep.selector => rules'[i] = rules[i]
        /\ style' = style
        /\ stylesheet' = stylesheet]_vars

(***************************************************************************)
(* SpecSerializers: the property serializers at work in any of the passes  *)
(* above: the text serializers on one block, the border serializers of a   *)
(* style, CssTableSerializer._serialize and                                *)
(* CssParagraphSerializer._serialize.                                      *)
(***************************************************************************)
InitSerializers == InitToggle \/ InitBorder \/ InitTable \/ InitParagraph

NextSerializers == NextToggle \/ NextBorder \/ NextTable \/ NextParagraph

SpecSerializers == InitSerializers /\ [][NextSerializers]_vars

\* set_css_style of the serializer of a step of the table pass
TableSerializer_set_css_style(rs, step) ==
    IF step.prop \in {ConditionalFields[i] : i \in 1..Len(ConditionalFields)}
    THEN TableConditionalFormatting_set_css_style(rs, stylesheet, style,
                                                  step.prop, step.value)
    ELSE PropertySerializer_set_css_style(rs, stylesheet, style, step.selector,
                                          step.prop, step.value)

\* the step a pass has just taken
LastApplied == applied'[Len(applied')]

\* the text serializer that has just written, applied again to the block
TextSerializerAgain ==
    PutRule(rules', ToggleSelector,
            TextSerializer_set_css_style(RuleOf(rules', ToggleSelector), LastApplied))

\* the border serializer that has just written, applied again to its block
BorderSerializerAgain ==
    IF LastApplied.prop \in {"border_inside_horizontal", "border_inside_vertical"}
    THEN BorderInsideSerializer_set_css_style(rules', stylesheet, style,
            LastApplied.selector, LastApplied.direction, LastApplied.border)
    ELSE BorderSerializer_set_css_style(
            get_or_create_rule(rules', LastApplied.selector), stylesheet, style,
            LastApplied.selector, LastApplied.direction, LastApplied.border)

\* the step the table pass is about to take has been taken before
SerializedBefore ==
    /\ pc = "table"
    /\ TableStepEnabled
    /\ TableStep.kind = "property"
    /\ \E i \in 1..Len(applied) :
            /\ applied[i].kind = "property"
            /\ applied[i].prop = TableStep.prop
            /\ applied[i].selector = TableStep.selector

\* C19: every property serializer is idempotent: applied a second time with
\* the same value to the same declaration block, it leaves every rule
\* exactly as it was after the first application (same declarations, same
\* values, same order); and a conditional-formatting slot serialized a
\* second time within one table pass leaves the rules as the first time
\* left them.
C19_Idempotent ==
    [][/\ (applied' # applied /\ pc = "toggle") => TextSerializerAgain = rules'
       /\ (applied' # applied /\ pc = "border") => BorderSerializerAgain = rules'
       /\ (applied' # applied /\ pc = "table" /\ LastApplied.kind = "property") =>
            TableSerializer_set_css_style(rules', LastApplied) = rules'
       /\ (applied' # applied /\ pc = "paragraph" /\ LastApplied.kind # "begin") =>
            ApplyStep(rules', stylesheet, style, LastApplied) = rules'
       /\ SerializedBefore => rules' = rules]_vars

\* C19 witness: the table pass has serialized the odd_rows slot twice, the
\* rules of the slot are there and the other slots have been serialized in
\* between
C19_Witness ==
    /\ pc = "table"
    /\ \E i, j, k \in 1..Len(applied) :
            /\ i < k /\ k < j
            /\ applied[i].prop = "odd_rows"
            /\ applied[j].prop = "odd_rows"
            /\ applied[k].prop = "even_rows"
            /\ HasRule(rules, row_selector(stylesheet, style, "odd_rows"))
            /\ RuleOf(rules, row_selector(stylesheet, style, "odd_rows")) # EmptyDeclaration

\* the step serializes a border side: a border property of the style or of
\* its default cell, or a slot whose block or default cell sets a border
SerializesBorder(step) ==
    \/ /\ pc = "border"
    \/ /\ pc = "table"
       /\ step.kind = "property"
       /\ \/ step.prop = "border_top"
          \/ /\ step.prop \in {ConditionalFields[i] : i \in 1..Len(ConditionalFields)}
             /\ \/ step.value.border_top # << >>
                \/ /\ step.value.default_cell # << >>
                   /\ step.value.default_cell[1].border_top # << >>

\* the value of border-collapse in the rule of the table's own selector
TableBorderCollapse ==
    getPropertyValue(RuleOf(rules, css_selector(stylesheet, style, "")),
                     "border-collapse")

\* C21: every time a border side is serialized for a table style, whether
\* it comes from the table's own properties, from its default cell or from
\* the default cell of a conditional-formatting block, the rule of the
\* table's own selector contains border-collapse: collapse afterwards.
C21_BorderCollapse ==
    (pc \in {"border", "table"} /\ style.type = "table" /\
     \E i \in 1..Len(applied) : SerializesBorder(applied[i])) =>
        TableBorderCollapse = "collapse"

\* C21 witness: the only border serialized so far is the one of the default
\* cell of the even_rows block, written to the rule of the cells of the
\* band, and the rule of the table has border-collapse: collapse
C21_Witness ==
    /\ pc = "table"
    /\ style.border_top = << >>
    /\ style.odd_columns = << >> /\ style.even_columns = << >>
    /\ style.odd_rows = << >>
    /\ Len(applied) = 2
    /\ applied[2].prop = "even_rows"
    /\ applied[2].value.border_top = << >>
    /\ applied[2].value.default_cell # << >>
    /\ applied[2].value.default_cell[1].border_top # << >>
    /\ TableBorderCollapse = "collapse"
    /\ HasRule(rules, cell_selector(stylesheet, style, "even_rows"))

\* the counter of the paragraph style has been serialized
CounterSerialized ==
    /\ pc = "paragraph"
    /\ \E i \in 1..Len(applied) : applied[i].kind = "counter"

\* the block of the `selector:before` rule of the paragraph style
BeforeRule == RuleOf(rules, css_current_selector(style) \o ":before")

\* C22: the `selector:before` rule of a paragraph style carrying a counter
\* gets its formatting declarations from the counter's own explicitly set
\* properties only: a margin-left or text-indent set on the owning paragraph
\* style and not on the counter never appears in the `:before` rule.
C22_BeforeFromCounter ==
    CounterSerialized =>
        /\ (style.margin_left # << >> /\ style.counter[1].margin_left = << >>) =>
                ~HasProperty(BeforeRule, "margin-left")
        /\ (style.text_indent # << >> /\ style.counter[1].text_indent = << >>) =>
                ~HasProperty(BeforeRule, "text-indent")

\* the text indent the counter serializer resolves: the paragraph's own, or
\* the counter's when the paragraph sets none
ResolvedTextIndent ==
    FirstNotNone(style.text_indent, style.counter[1].text_indent)

\* C23: for a paragraph style carrying a counter whose resolved text-indent
\* is non-negative (first-line indent), the paragraph's own rule ends with
\* no text-indent declaration and, for the tab suffix, the `:before` rule
\* has margin-right equal to the indent and display: inline-block.
C23_FirstLineIndent ==
    (CounterSerialized /\ ResolvedTextIndent # << >> /\ ResolvedTextIndent[1] >= 0) =>
        /\ ~HasProperty(OwnRule, "text-indent")
        /\ style.counter[1].suffix = "tab" =>
                /\ getPropertyValue(BeforeRule, "margin-right") =
                        FormatInches(ResolvedTextIndent[1])
                /\ getPropertyValue(BeforeRule, "display") = "inline-block"

\* C23 witness: the paragraph style sets text_indent = 0.25in itself, its
\* serializer has written it to the paragraph's rule, and after the tab
\* counter the rule has no text-indent while `:before` has the margin-right
C23_Witness ==
    /\ CounterSerialized
    /\ style.text_indent = <<228600>>
    /\ style.counter[1].suffix = "tab"
    /\ \E i \in 1..Len(applied) : applied[i].prop = "text_indent"
    /\ ~HasProperty(OwnRule, "text-indent")
    /\ HasProperty(OwnRule, "counter-reset")
    /\ getPropertyValue(BeforeRule, "margin-right") = "0.25in"
    /\ getPropertyValue(BeforeRule, "text-indent") = "0.25in"
    /\ getPropertyValue(BeforeRule, "display") = "inline-block"

\* the place of a property step in the order table properties, default row,
\* default cell, conditional-formatting slots
StepRank(step) ==
    IF step.prop \in {ConditionalFields[i] : i \in 1..Len(ConditionalFields)} THEN 4
    ELSE IF step.selector = css_selector(stylesheet, style, "td") THEN 3
    ELSE IF step.selector = css_selector(stylesheet, style, "tr") THEN 2
    ELSE 1

\* C24: a table style is serialized in the step order table properties, then
\* default row, then default cell, then each conditional-formatting slot;
\* all steps accumulate into the same selector-keyed rules, and two steps
\* that target the same selector end up in one rule.
C24_StepOrder ==
    pc = "table" =>
        /\ \A i, j \in 1..Len(applied) :
                (i < j /\ applied[i].kind = "property" /\ applied[j].kind = "property") =>
                    StepRank(applied[i]) <= StepRank(applied[j])
        /\ \A i, j \in 1..Len(rules) :
                i # j => rules[i].selector # rules[j].selector

(***************************************************************************)
(* SpecLinks: NumberingPart.unmarshall (ooxml/package.py) of a numbering   *)
(* part, element by element.  An element of xml_content is an abstractNum  *)
(* or a num; an abstractNum either has levels or names a numbering style   *)
(* (numStyleLink), whose numbering instance is the one to use instead.     *)
(* `numbering` holds xml_content and the two dictionaries of the part.     *)
(***************************************************************************)
MaxAbstract == 3

AbstractIds == 0..(MaxAbstract - 1)

\* the numbering style `j` is the style of the instance j + 1
Styles == [j \in AbstractIds |-> [numbering_instance_id |-> j + 1]]

\* w:abstractNum: numbering_style_link is << >> for None or <<style id>>
AbstractNumbering(id, link) ==
    [kind |-> "abstractNum", id |-> id, abstract_num_id |-> id,
     numbering_style_link |-> link,
     levels |-> IF link = << >> THEN 9 ELSE 0]

\* w:num
Num(id, abstract_num_id) ==
    [kind |-> "num", id |-> id, abstract_num_id |-> abstract_num_id,
     numbering_style_link |-> << >>, levels |-> 0]

\* the abstractNum a link leads to: the one the instance of the style is of
LinkTarget(link) == Styles[link[1]].numbering_instance_id - 1

\* the link maps without a cycle: following the links from any abstractNum
\* ends at one without a link within MaxAbstract steps
LinkMaps ==
    {l \in [AbstractIds -> {<< >>} \cup {<<j>> : j \in AbstractIds}] :
        \E rank \in [AbstractIds -> AbstractIds] :
            \A i \in AbstractIds :
                l[i] # << >> => rank[LinkTarget(l[i])] < rank[i]}

\* the orders the instances 1..MaxAbstract may be declared in
NumOrders ==
    {o \in [1..MaxAbstract -> 1..MaxAbstract] :
        \A i, j \in 1..MaxAbstract : i # j => o[i] # o[j]}

\* xml_content: the abstractNum elements, then the num elements (the order
\* of CT_Numbering), the instance i + 1 being of the abstractNum i
XmlContents ==
    {[i \in 1..MaxAbstract |-> AbstractNumbering(i - 1, l[i - 1])] \o
     [i \in 1..MaxAbstract |-> Num(o[i], o[i] - 1)] :
        l \in LinkMaps, o \in NumOrders}

\* NumberingPart.resolve_abstract_numbering: the abstract numbering, the
\* instance already registered for the numbering style it links to, or the
\* KeyError of self.__numbering_instances[num_id]
resolve_abstract_numbering(abstract_numbering, numbering_instances, abstract_num_id) ==
    LET abstract == abstract_numbering[abstract_num_id]
        style_id == abstract.numbering_style_link
    IN  IF style_id = << >> THEN abstract
        ELSE LET num_id == Styles[style_id[1]].numbering_instance_id
             IN  IF num_id \in DOMAIN numbering_instances
                 THEN numbering_instances[num_id]
                 ELSE [kind |-> "KeyError", id |-> num_id, abstract_num_id |-> abstract_num_id,
                       numbering_style_link |-> style_id, levels |-> 0]

InitLinks ==
    /\ \E xml_content \in XmlContents :
            numbering = [xml_content |-> xml_content,
                         abstract_numbering |-> << >>,
                         numbering_instances |-> << >>]
    /\ applied = << >>
    /\ rules = << >>
    /\ style = NoStyle
    /\ stylesheet = << >>
    /\ serializer = NoSerializer
    /\ result = NoResult
    /\ pc = "links"

\* the element unmarshall is at
LinksElement == numbering.xml_content[Len(applied) + 1]

LinksEnabled ==
    /\ pc = "links"
    /\ Len(applied) < Len(numbering.xml_content)

\* self.__abstract_numbering[numbering.id] = numbering
UnmarshallAbstractNumbering ==
    /\ LinksEnabled
    /\ LinksElement.kind = "abstractNum"
    /\ numbering' = [numbering EXCEPT !.abstract_numbering =
                        (LinksElement.id :> LinksElement) @@ @]
    /\ applied' = Append(applied, LinksElement.id)
    /\ UNCHANGED <<rules, style, stylesheet, pc, serializer, result>>

\* self.__numbering_instances[numbering.id] = resolve_abstract_numbering(...)
UnmarshallNum ==
    /\ LinksEnabled
    /\ LinksElement.kind = "num"
    /\ \E resolved \in {resolve_abstract_numbering(numbering.abstract_numbering,
                            numbering.numbering_instances,
                            LinksElement.abstract_num_id)} :
        IF resolved.kind = "KeyError"
        THEN /\ result' = <<"KeyError", resolved.id>>
             /\ pc' = "done"
             /\ UNCHANGED <<numbering, applied>>
        ELSE /\ numbering' = [numbering EXCEPT !.numbering_instances =
                                (LinksElement.id :> resolved) @@ @]
             /\ applied' = Append(applied, LinksElement.id)
             /\ UNCHANGED <<pc, result>>
    /\ UNCHANGED <<rules, style, stylesheet, serializer>>

NextLinks == UnmarshallAbstractNumbering \/ UnmarshallNum

SpecLinks == InitLinks /\ [][NextLinks]_vars

\* unmarshall is over: every element is done, or an exception has ended it
LinksDone ==
    \/ pc = "links" /\ Len(applied) = Len(numbering.xml_content)
    \/ pc = "done" /\ result # NoResult /\ result[1] = "KeyError"

\* C25: for every acyclic chain of numbering style links of any length, and
\* whatever order the numbering instances are declared in, every numbering
\* instance resolves to a concrete abstract numbering that has levels and
\* carries no further numbering-style link.
C25_LinksResolved ==
    LinksDone =>
        \A id \in 1..MaxAbstract :
            /\ id \in DOMAIN numbering.numbering_instances
            /\ numbering.numbering_instances[id].numbering_style_link = << >>
            /\ numbering.numbering_instances[id].levels > 0

(***************************************************************************)
(* SpecConvert: the paragraph styles of a style table are parsed in the    *)
(* order of the table, each style naming any parent, and css_selector() of *)
(* a paragraph style of the stylesheet is then computed, one call of       *)
(* CssParagraphSerializer.css_selector per step.  `serializer` holds the   *)
(* styles whose css_selector is still to be called (the calls pending on   *)
(* the stack, in the order they are made) and the names joined so far.     *)
(***************************************************************************)
MaxNames == 5

\* the <w:style> elements a style table may hold: every style may name any
\* other style, or a style the table does not define, as its parent (a style
\* that names itself is left out: its placeholder and the style are two
\* objects of one id, and the stylesheet modelled here holds one per id)
ConvertDocxStyles ==
    {d \in [id : {"a", "b"}, name : {<<"s">>}, parent_id : {None, "a", "b", "c"},
            bold : {<< >>}] : d.parent_id # d.id}

InitConvert ==
    /\ stylesheet = << >>
    /\ style = NoStyle
    /\ rules = << >>
    /\ applied = << >>
    /\ numbering = NoNumbering
    /\ pc = "parse"
    /\ serializer = [stack |-> << >>, names |-> << >>]
    /\ result = NoResult

\* DocxParser.parse_docx_paragraph_style of the next style of the table,
\* a style id occurring once in the table
ConvertParseStyle ==
    /\ pc = "parse"
    /\ \E docx_style \in ConvertDocxStyles :
        /\ \A i \in 1..Len(applied) : applied[i].id # docx_style.id
        /\ stylesheet' = parse_docx_paragraph_style(stylesheet, docx_style)
        /\ applied' = Append(applied, docx_style)
    /\ UNCHANGED <<rules, style, numbering, pc, serializer, result>>

\* css_selector() of the block serializer of a style of the stylesheet is
\* called
ConvertCssSelector ==
    /\ pc = "parse"
    /\ \E i \in 1..Len(stylesheet) :
        /\ style' = stylesheet[i]
        /\ serializer' = [stack |-> <<stylesheet[i].id>>, names |-> << >>]
    /\ pc' = "css_selector"
    /\ UNCHANGED <<rules, applied, numbering, stylesheet, result>>

\* the children CssParagraphSerializer.css_selector calls css_selector of
css_selector_children(ss, s) ==
    IF css_current_selector(s) = "p"
    THEN SelectSeq(ChildStyles(ss, s), not_p)
    ELSE ChildStyles(ss, s)

\* one call of CssParagraphSerializer.css_selector: the current selector is
\* appended to the names and css_selector of each child is called in turn,
\* before the calls that were pending; the names are kept up to MaxNames
ConvertCssSelectorCall ==
    /\ pc = "css_selector"
    /\ Len(serializer.stack) > 0
    /\ \E s \in {StyleOf(stylesheet, "p", Head(serializer.stack))} :
        \E children \in {css_selector_children(stylesheet, s)} :
            serializer' =
                [stack |-> [i \in 1..Len(children) |-> children[i].id]
                            \o Tail(serializer.stack),
                 names |-> IF Len(serializer.names) < MaxNames
                           THEN Append(serializer.names, css_current_selector(s))
                           ELSE serializer.names]
    /\ UNCHANGED <<rules, applied, style, numbering, stylesheet, pc, result>>

\* the outermost call returns ', '.join(names)
ConvertCssSelectorReturn ==
    /\ pc = "css_selector"
    /\ Len(serializer.stack) = 0
    /\ result' = <<Join(serializer.names, ", ")>>
    /\ pc' = "done"
    /\ UNCHANGED <<rules, applied, style, numbering, stylesheet, serializer>>

NextConvert ==
    \/ ConvertParseStyle
    \/ ConvertCssSelector
    \/ ConvertCssSelectorCall
    \/ ConvertCssSelectorReturn

\* the conversion is one thread that runs until it returns
SpecConvert == InitConvert /\ [][NextConvert]_vars /\ WF_vars(NextConvert)

\* C26: conversion always terminates: for every stylesheet the parser can
\* build from a style table, whatever parent_id references the styles
\* contain, css_selector() finishes after a bounded number of steps.
C26_Terminates == <>(pc = "done")

(***************************************************************************)
(* SpecParseXml: DocxParser.parse_xml_style of one element, one property   *)
(* name per step.  `serializer` holds the registry of the ParserFactory    *)
(* the parser was built with, the property names handed to                 *)
(* parse_xml_style, the position of the loop and the warnings issued;      *)
(* `applied` lists the properties whose parser has parsed the element.     *)
(***************************************************************************)
\* property names of the data model: a text property, a paragraph property,
\* a table property and a conditional-formatting slot of a TableStyle
DataModelPropertyNames == {"bold", "border_top", "col_band_size", "odd_rows"}

\* the names DocxParserFactory.register is called with: no slot is registered
DocxParserFactory == {"bold", "border_top", "col_band_size"}

\* the names handed to parse_xml_style: fields(TextFormatting) for a span
\* style, fields(ParagraphFormatting) for a paragraph style, and
\* table_properties(False) for a table style, the slots of the TableStyle
\* being among its fields
parse_xml_style_properties(type) ==
    CASE type = "span"  -> <<"bold">>
      [] type = "p"     -> <<"bold", "border_top">>
      [] type = "table" -> <<"bold", "border_top", "col_band_size", "odd_rows">>

\* ParserFactory.get_property_parser: the registered creator, or None with
\* a warning
get_property_parser(property_parsers, property_name) ==
    IF property_name \in property_parsers
    THEN [creator |-> property_name, warning |-> << >>]
    ELSE [creator |-> None,
          warning |-> <<"No parser registered for " \o property_name>>]

InitParseXml ==
    /\ \E type \in {"span", "p", "table"} :
        \E property_parsers \in {DocxParserFactory} \cup SUBSET DataModelPropertyNames :
            /\ style = [NoStyle EXCEPT !.type = type]
            /\ serializer = [property_parsers |-> property_parsers,
                             properties |-> parse_xml_style_properties(type),
                             next |-> 1, warnings |-> << >>]
    /\ stylesheet = << >>
    /\ rules = << >>
    /\ applied = << >>
    /\ numbering = NoNumbering
    /\ pc = "parse_xml_style"
    /\ result = NoResult

\* one turn of the loop of parse_xml_style: the parser of the property, when
\* there is one, parses the element
ParseXmlStyleProperty ==
    /\ pc = "parse_xml_style"
    /\ serializer.next <= Len(serializer.properties)
    /\ \E prop \in {serializer.properties[serializer.next]} :
        \E parser_class \in {get_property_parser(serializer.property_parsers, prop)} :
            /\ applied' = IF parser_class.creator # None
                          THEN Append(applied, prop) ELSE applied
            /\ serializer' = [serializer EXCEPT
                                !.next = @ + 1,
                                !.warnings = @ \o parser_class.warning]
    /\ UNCHANGED <<rules, style, numbering, stylesheet, pc, result>>

\* parse_xml_style returns
ParseXmlStyleReturn ==
    /\ pc = "parse_xml_style"
    /\ serializer.next > Len(serializer.properties)
    /\ pc' = "done"
    /\ UNCHANGED <<rules, applied, style, numbering, stylesheet, serializer, result>>

NextParseXml == ParseXmlStyleProperty \/ ParseXmlStyleReturn

SpecParseXml == InitParseXml /\ [][NextParseXml]_vars

\* C27: during parsing, looking up the handler of a data-model property
\* name that has no registered handler raises ValueError and stops the
\* parse; the property is not skipped.
C27_UnregisteredRaises ==
    \A k \in 1..(serializer.next - 1) :
        serializer.properties[k] \notin serializer.property_parsers =>
            /\ result # NoResult
            /\ result[1] = "ValueError"
            /\ serializer.next = k + 1

(***************************************************************************)
(* SpecInside: TableConditionalFormatting.serialize_border_inside_         *)
(* horizontal and serialize_border_inside_vertical, the steps of           *)
(* set_css_style of a slot that write an inside border of the slot's       *)
(* default cell.  `applied` lists the borders written, `rules` is the      *)
(* dictionary css_style_rules() returns the rules of.                      *)
(***************************************************************************)
\* CssTableSerializer.column_inside_vertical_selector
column_inside_vertical_selector(ss, s, odd) ==
    LET n == band_size_or_1(s.col_band_size)
        bands == 2 * n
        start == IF odd THEN 1 ELSE n + 1
        stop == IF odd THEN n ELSE bands
    IN  Join([i \in 1..(stop - start) |->
                css_selector(ss, s,
                    Join(<<nth_child("tr td", bands, start + i - 1),
                           nth_child("td", bands, start + i)>>, " + "))],
             ", ")

\* CssTableSerializer.row_inside_horizontal_selector: suffixes[:-1]
row_inside_horizontal_selector(ss, s, odd) ==
    LET suffixes == col_row_selectors(ss, s, FALSE, odd, "tr", " td")
    IN  Join(SubSeq(suffixes, 1, Len(suffixes) - 1), ", ")

\* border_inside_horizontal_selector of the serializer registered for the slot
border_inside_horizontal_selector(ss, s, slot) ==
    CASE slot = "odd_rows"  -> row_inside_horizontal_selector(ss, s, TRUE)
      [] slot = "even_rows" -> row_inside_horizontal_selector(ss, s, FALSE)
      [] OTHER              -> cell_selector(ss, s, slot)

\* border_inside_vertical_selector of the serializer registered for the
\* slot; the method of EvenColumnsSerializer has no return statement
border_inside_vertical_selector(ss, s, slot) ==
    CASE slot = "odd_rows"     -> odd_row_selector(ss, s, " td + td")
      [] slot = "even_rows"    -> even_row_selector(ss, s, " td + td")
      [] slot = "odd_columns"  -> column_inside_vertical_selector(ss, s, TRUE)
      [] slot = "even_columns" -> None

\* TableConditionalFormatting.serialize_border_inside_horizontal
serialize_border_inside_horizontal(rs, ss, s, slot, border_property) ==
    LET selector == border_inside_horizontal_selector(ss, s, slot)
    IN  BorderInsideSerializer_set_css_style(get_or_create_rule(rs, selector),
            ss, s, selector, "bottom", border_property)

\* TableConditionalFormatting.serialize_border_inside_vertical
serialize_border_inside_vertical(rs, ss, s, slot, border_property) ==
    LET selector == border_inside_vertical_selector(ss, s, slot)
    IN  BorderInsideSerializer_set_css_style(get_or_create_rule(rs, selector),
            ss, s, selector, "left", border_property)

InsideTableStyles ==
    { [type |-> "table", id |-> "t", name |-> <<"t">>, parent_id |-> None,
       children |-> ch, col_band_size |-> cb, row_band_size |-> rb] :
        ch \in {<< >>, <<"c">>}, cb \in BandSizes, rb \in BandSizes }

InitInside ==
    /\ style \in InsideTableStyles
    /\ stylesheet = IF style.children = << >> THEN <<style>>
                    ELSE <<style, TableChild>>
    /\ rules = << >>
    /\ applied = << >>
    /\ numbering = NoNumbering
    /\ pc = "inside"
    /\ serializer = NoSerializer
    /\ result = NoResult

\* the default cell of a slot sets border_inside_horizontal
SerializeBorderInsideHorizontal ==
    /\ pc = "inside"
    /\ Len(applied) < MaxBorderWrites
    /\ \E i \in 1..Len(ConditionalFields),
          border \in {BareBorder("solid"), FullBorder("solid")} :
        /\ rules' = serialize_border_inside_horizontal(rules, stylesheet, style,
                        ConditionalFields[i], border)
        /\ applied' = Append(applied,
                        [prop |-> "border_inside_horizontal",
                         slot |-> ConditionalFields[i],
                         selector |-> border_inside_horizontal_selector(
                                        stylesheet, style, ConditionalFields[i]),
                         border |-> border])
    /\ UNCHANGED <<style, numbering, stylesheet, pc, serializer, result>>

\* the default cell of a slot sets border_inside_vertical
SerializeBorderInsideVertical ==
    /\ pc = "inside"
    /\ Len(applied) < MaxBorderWrites
    /\ \E i \in 1..Len(ConditionalFields),
          border \in {BareBorder("solid"), FullBorder("solid")} :
        /\ rules' = serialize_border_inside_vertical(rules, stylesheet, style,
                        ConditionalFields[i], border)
        /\ applied' = Append(applied,
                        [prop |-> "border_inside_vertical",
                         slot |-> ConditionalFields[i],
                         selector |-> border_inside_vertical_selector(
                                        stylesheet, style, ConditionalFields[i]),
                         border |-> border])
    /\ UNCHANGED <<style, numbering, stylesheet, pc, serializer, result>>

NextInside == SerializeBorderInsideHorizontal \/ SerializeBorderInsideVertical

SpecInside == InitInside /\ [][NextInside]_vars

\* the selector that pairs the columns k and k + 1 of a cycle of 2N columns
\* for each k of ks, for the table style and its children
ColumnPairs(N, ks) ==
    Join([i \in 1..Len(ks) |->
            css_selector(stylesheet, style,
                "tr td:nth-child(" \o ToString(2 * N) \o "n+" \o ToString(ks[i])
                \o ") + td:nth-child(" \o ToString(2 * N) \o "n+"
                \o ToString(ks[i] + 1) \o ")")],
         ", ")

\* C28: for the even_columns slot of a table with col_band_size N, the
\* default cell's inside-vertical border is written to the selector that
\* pairs td:nth-child(2Nn+k) + td:nth-child(2Nn+k+1) for k = N+1..2N-1 only,
\* mirroring odd_columns (k = 1..N-1): adjacent columns are paired within
\* one band and never across the odd/even boundary.
C28_EvenColumnPairs ==
    pc = "inside" =>
        \A i \in 1..Len(applied) :
            LET N == band_size_or_1(style.col_band_size)
            IN  (applied[i].prop = "border_inside_vertical" /\ N >= 2) =>
                    /\ applied[i].slot = "odd_columns" =>
                            applied[i].selector =
                                ColumnPairs(N, [k \in 1..(N - 1) |-> k])
                    /\ applied[i].slot = "even_columns" =>
                            applied[i].selector =
                                ColumnPairs(N, [k \in 1..(N - 1) |-> N + k])
                    /\ applied[i].slot \in {"odd_columns", "even_columns"} =>
                            /\ HasRule(rules, applied[i].selector)
                            /\ getPropertyValue(RuleOf(rules, applied[i].selector),
                                         "border-left-style") = "solid"

\* C30: every rule returned by a block serializer's css_style_rules() has a
\* non-empty selector that is a string: in particular, with band size 1, an
\* odd/even rows or columns slot whose default cell sets an inside border
\* creates no rule keyed by the empty selector or by None.
C30_SelectorsNonEmpty ==
    pc = "inside" =>
        \A i \in 1..Len(rules) : rules[i].selector \notin {"", None}

\* the block of a rows slot sets border_top in its default cell
SetsCellBorderTop(slot) ==
    /\ style[slot] # << >>
    /\ style[slot][1].default_cell # << >>
    /\ style[slot][1].default_cell[1].border_top # << >>

\* C29: for a table style that has child styles, every comma-separated
\* member of every selector produced for it (band, first/last row or column,
\* corner-cell and border selectors) carries the complete caller-supplied
\* suffix: the rules of a rows slot are keyed by the union, over the style
\* and its children, of the style's selector followed by the whole suffix,
\* for the cells of the band and for the top border of its first row alike.
C29_SuffixOnEveryMember ==
    (pc = "table" /\ style.children # << >>) =>
        LET N == band_size_or_1(style.row_band_size)
        IN  /\ "odd_rows" \in AppliedProps =>
                    HasRule(rules, Join(ExpectedBand(FALSE, N, OddOffsets(N), " td"), ", "))
            /\ "even_rows" \in AppliedProps =>
                    HasRule(rules, Join(ExpectedBand(FALSE, N, EvenOffsets(N), " td"), ", "))
            /\ ("odd_rows" \in AppliedProps /\ SetsCellBorderTop("odd_rows")) =>
                    HasRule(rules, ExpectedBand(FALSE, N, <<1>>, " td")[1])
            /\ ("even_rows" \in AppliedProps /\ SetsCellBorderTop("even_rows")) =>
                    HasRule(rules, ExpectedBand(FALSE, N, <<N + 1>>, " td")[1])

====
